---- MODULE Spec2Model ----
(***************************************************************************)
(* A model of rico's HTML parser and of its HTML pipeline, strip_html,      *)
(* indent_html and serialize_html (src/src/rico/_html.py), of the global   *)
(* configuration and its functions get_config, set_config and              *)
(* config_context (src/src/rico/_config.py), of the constructors of       *)
(* Script and Style and of the choice Obj makes among an object's _repr_   *)
(* methods (src/src/rico/_content.py), and of indent_html of the earlier   *)
(* module (src/src/rico/html.py).                                          *)
(*                                                                         *)
(* Representation.  A Python str is a sequence of one-character strings.   *)
(* The Python values None, True and False are one-element sequences        *)
(* holding the words "None", "True" and "False", so that every value an    *)
(* attribute, a text, a tail or an option can hold is a sequence of        *)
(* strings and any two of them can be compared.  Tag names and attribute   *)
(* names are atoms (TLA+ strings); in an output string a name occupies one *)
(* position.  An xml.etree.ElementTree.Element is an entry of `heap`, a    *)
(* sequence of records; an element reference is an index into it, so two   *)
(* references to the same object are the same index and an assignment to   *)
(* a field of one is seen through the other.                               *)
(***************************************************************************)
EXTENDS Integers, Sequences, FiniteSets, TLC

VARIABLES
    heap,           \* the Element objects: heap[e] = [tag, attrib, text, tail, children]
    orig,           \* the heap as the caller built it (history variable)
    root,           \* the element the caller holds
    _global_config, \* rico._config._global_config
    call,           \* the last call made and its arguments
    pre,            \* the heap when that call was made
    result,         \* what that call returned or left
    _builder,       \* _HTMLParser._builder, an ET.TreeBuilder
    _empty_tag,     \* _HTMLParser._empty_tag
    cdata_elem,     \* HTMLParser.cdata_elem: the open script or style, or None
    rawdata,        \* HTMLParser.rawdata: the content of cdata_elem read so far
    input,          \* the lexemes of the string parse_html was given, as read so far
    pstate,         \* "idle", "feeding", "closed" or the exception raised
    frames,         \* the config_context blocks entered and not left, outermost first
    held            \* the dictionary the caller got from get_config()

vars == <<heap, orig, root, _global_config, call, pre, result,
          _builder, _empty_tag, cdata_elem, rawdata, input, pstate, frames, held>>

pipeline_vars == <<heap, orig, root, _global_config, call, pre, result>>
parser_vars == <<_builder, _empty_tag, cdata_elem, rawdata, input, pstate>>
context_vars == <<frames, held>>

(***************************************************************************)
(* Python values                                                           *)
(***************************************************************************)
None == <<"None">>
True == <<"True">>
False == <<"False">>

NL == "\n"
SP == " "
QUOT == "\""

Range(s) == {s[i] : i \in 1..Len(s)}

\* isinstance(v, bool)
IsBool(v) == v \in {True, False}

\* bool(v) for v a str, a bool or None
Truthy(v) == v \notin {None, False, <<>>}

\* str.isspace of one character (the characters of the model's alphabet)
IsSpace(c) == c \in {SP, NL}

RECURSIVE Repeat(_, _)
\* s * n
Repeat(s, n) == IF n <= 0 THEN <<>> ELSE s \o Repeat(s, n - 1)

RECURSIVE str_lstrip(_)
\* str.lstrip()
str_lstrip(s) ==
    IF s = <<>> THEN <<>>
    ELSE IF IsSpace(Head(s)) THEN str_lstrip(Tail(s)) ELSE s

RECURSIVE str_rstrip(_)
\* str.rstrip()
str_rstrip(s) ==
    IF s = <<>> THEN <<>>
    ELSE IF IsSpace(s[Len(s)]) THEN str_rstrip(SubSeq(s, 1, Len(s) - 1)) ELSE s

\* str.strip()
str_strip(s) == str_rstrip(str_lstrip(s))

RECURSIVE str_replace(_, _, _)
\* str.replace(old, new) for a one-character old
str_replace(s, old, new) ==
    IF s = <<>> THEN <<>>
    ELSE (IF Head(s) = old THEN new ELSE <<Head(s)>>) \o str_replace(Tail(s), old, new)

RECURSIVE SplitLines(_)
\* str.split("\n"): the lines of s without their newlines
SplitLines(s) ==
    IF s = <<>> THEN << <<>> >>
    ELSE LET rest == SplitLines(Tail(s))
         IN  IF Head(s) = NL
             THEN << <<>> >> \o rest
             ELSE << <<Head(s)>> \o Head(rest) >> \o Tail(rest)

RECURSIVE JoinLines(_)
\* "\n".join(lines)
JoinLines(ls) ==
    IF Len(ls) = 0 THEN <<>>
    ELSE IF Len(ls) = 1 THEN ls[1]
    ELSE ls[1] \o <<NL>> \o JoinLines(Tail(ls))

\* a line that holds no character other than blanks
BlankLine(l) == \A i \in 1..Len(l) : IsSpace(l[i])

\* the number of leading blanks of a line
Margin(l) == Len(l) - Len(str_lstrip(l))

\* textwrap.dedent(text): whitespace-only lines are emptied, and the longest
\* common leading whitespace of the other lines is removed from each
dedent(text) ==
    LET ls == SplitLines(text)
        margins == {Margin(ls[i]) : i \in {j \in 1..Len(ls) : ~BlankLine(ls[j])}}
        margin == IF margins = {} THEN 0
                  ELSE CHOOSE m \in margins : \A k \in margins : m <= k
    IN  JoinLines([i \in 1..Len(ls) |->
            IF BlankLine(ls[i]) THEN <<>>
            ELSE SubSeq(ls[i], margin + 1, Len(ls[i]))])

\* textwrap.indent(text, prefix): prefix is added to every line that holds
\* a character other than whitespace
textwrap_indent(text, prefix) ==
    LET ls == SplitLines(text)
    IN  JoinLines([i \in 1..Len(ls) |->
            IF BlankLine(ls[i]) THEN ls[i] ELSE prefix \o ls[i]])

(***************************************************************************)
(* Tag classification                                                      *)
(***************************************************************************)
TAGS_EMPTY == {
    "area", "base", "basefont", "br", "col", "embed", "frame", "hr", "img",
    "input", "isindex", "link", "meta", "param", "path", "source", "track", "wbr"}

TAGS_INLINE == {
    "a", "abbr", "b", "bdi", "bdo", "br", "cite", "code", "data", "dfn", "em",
    "i", "kbd", "mark", "q", "rp", "rt", "ruby", "s", "samp", "small", "span",
    "strong", "sub", "sup", "time", "u", "var", "wbr"}

TAGS_NOT_ESCAPED == {"script", "style"}
TAGS_PREFORMATTED == {"pre"}

\* tag.lower(), for the tags of the model that are not lower case already
Lower(tag) ==
    CASE tag = "BR" -> "br"
      [] tag = "STYLE" -> "style"
      [] tag = "PRE" -> "pre"
      [] tag = "SPAN" -> "span"
      [] tag = "SCRIPT" -> "script"
      [] tag = "P" -> "p"
      [] tag = "ID" -> "id"
      [] OTHER -> tag

(***************************************************************************)
(* Elements                                                                *)
(***************************************************************************)
\* e.text = v
SetText(h, e, v) == [h EXCEPT ![e].text = v]

\* e.tail = v
SetTail(h, e, v) == [h EXCEPT ![e].tail = v]

\* e.append(c)
AppendChild(h, e, c) == [h EXCEPT ![e].children = Append(@, c)]

(***************************************************************************)
(* strip_html                                                              *)
(***************************************************************************)
\* new = ET.Element(element.tag, attrib=element.attrib); new.text =
\* element.text; new.tail = element.tail: the heap with the new element last
CopyElement(h, el) ==
    Append(h, [tag |-> el.tag, attrib |-> el.attrib, text |-> el.text,
               tail |-> el.tail, children |-> <<>>])

\* for child in element: new.append(child)
ReattachChildren(h, new, el) == [h EXCEPT ![new].children = el.children]

\* strip_text that removes one leading blank at a time
strip_text_one_blank(text, has_children) ==
    IF ~Truthy(text) THEN text
    ELSE IF IsSpace(Head(text)) THEN Tail(text) ELSE text

\* strip_text that removes the trailing whitespace of every text
strip_text_both_ends(text, has_children) ==
    IF ~Truthy(text) THEN text ELSE str_strip(text)

\* the text strip_html gives a block-level element
strip_text(text, has_children) ==
    IF ~Truthy(text) THEN text
    ELSE IF Truthy(str_lstrip(text)) /\ ~has_children
         THEN str_rstrip(str_lstrip(text))
         ELSE str_lstrip(text)

RECURSIVE strip_html(_, _), strip_children(_, _, _, _)

\* strip_child that removes the trailing whitespace of the child's tail
strip_child_tail_stripped(r, stripped_element) ==
    AppendChild(IF Truthy(r.h[r.e].tail)
                THEN SetTail(r.h, r.e, str_rstrip(r.h[r.e].tail))
                ELSE r.h,
                stripped_element, r.e)

\* for child in element: stripped_element.append(strip_html(child))
strip_child(r, stripped_element) == AppendChild(r.h, stripped_element, r.e)

strip_children(h, stripped_element, kids, i) ==
    IF i > Len(kids) THEN h
    ELSE strip_children(strip_child(strip_html(h, kids[i]), stripped_element),
                        stripped_element, kids, i + 1)

\* strip_element that strips the pre and the inline elements as it strips
\* the others
strip_element_no_exempt(h, stripped_element, el) ==
    [h |-> strip_children(
               SetText(h, stripped_element,
                       strip_text(el.text, Len(el.children) > 0)),
               stripped_element, el.children, 1),
     e |-> stripped_element]

\* the body of strip_html once stripped_element, the last element of h, has
\* been created from el
strip_element(h, stripped_element, el) ==
    IF Lower(el.tag) \in TAGS_INLINE \cup TAGS_PREFORMATTED
    THEN [h |-> ReattachChildren(h, stripped_element, el), e |-> stripped_element]
    ELSE [h |-> strip_children(
                    SetText(h, stripped_element,
                            strip_text(el.text, Len(el.children) > 0)),
                    stripped_element, el.children, 1),
          e |-> stripped_element]

\* strip_html with the stripped text assigned to element.text as well as to
\* stripped_element.text
strip_html_in_place(h, element) ==
    [h |-> SetText(strip_element(CopyElement(h, h[element]), Len(h) + 1, h[element]).h,
                   element,
                   IF Lower(h[element].tag) \in TAGS_INLINE \cup TAGS_PREFORMATTED
                   THEN h[element].text
                   ELSE strip_text(h[element].text, Len(h[element].children) > 0)),
     e |-> Len(h) + 1]

\* strip_html(element): the heap after the call and the element returned
strip_html(h, element) ==
    strip_element(CopyElement(h, h[element]), Len(h) + 1, h[element])

(***************************************************************************)
(* indent_html                                                             *)
(***************************************************************************)
\* not tail or not tail.strip()
BlankTail(tail) == ~Truthy(tail) \/ ~Truthy(str_strip(tail))

\* indent_text that removes the leading whitespace of a text and does
\* nothing else to it
indent_text_lstrip_only(text, has_children, space, level) ==
    IF ~Truthy(text) \/ ~Truthy(str_lstrip(text))
    THEN IF has_children THEN <<NL>> \o Repeat(space, level + 1) ELSE None
    ELSE IF has_children THEN text ELSE str_lstrip(text)

\* the text indent_html gives a block-level element
indent_text(text, has_children, space, level) ==
    IF ~has_children /\ text # None /\ Truthy(text) /\ Truthy(str_lstrip(text))
    THEN IF NL \in Range(str_lstrip(text))
         THEN <<NL>>
              \o textwrap_indent(str_strip(dedent(text)), Repeat(space, level + 1))
              \o <<NL>> \o Repeat(space, level)
         ELSE str_lstrip(text)
    ELSE IF ~Truthy(text) \/ ~Truthy(str_lstrip(text))
         THEN IF has_children THEN <<NL>> \o Repeat(space, level + 1) ELSE None
         ELSE text

\* indent_tail that sets the tail whatever it holds
indent_tail_forced(h, e, space, level) ==
    SetTail(h, e, <<NL>> \o Repeat(space, level))

\* if not e.tail or not e.tail.strip(): e.tail = "\n" + space * level
indent_tail(h, e, space, level) ==
    IF BlankTail(h[e].tail) THEN SetTail(h, e, <<NL>> \o Repeat(space, level)) ELSE h

\* indent_child that gives the child the indentation of its parent
indent_child_parent_level(r, indented_element, space, level) ==
    indent_tail(AppendChild(r.h, indented_element, r.e), r.e, space, level)

RECURSIVE indent_html(_, _, _, _), indent_children(_, _, _, _, _, _)

\* indented_element.append(indented_child), then the child's tail
indent_child(r, indented_element, space, level) ==
    indent_tail(AppendChild(r.h, indented_element, r.e), r.e, space, level + 1)

\* for child in element: indent it a level deeper, append it, and set its
\* tail unless the tail holds text
indent_children(h, indented_element, kids, i, space, level) ==
    IF i > Len(kids) THEN h
    ELSE indent_children(
             indent_child(indent_html(h, kids[i], space, level + 1),
                          indented_element, space, level),
             indented_element, kids, i + 1, space, level)

\* indent_html without the statements on the tail of the last child
indent_last_child_skipped(h, indented_element, space, level) == h

\* if has_children: the tail of indented_element[-1]
indent_last_child(h, indented_element, space, level) ==
    IF Len(h[indented_element].children) > 0
    THEN indent_tail(h, h[indented_element].children[Len(h[indented_element].children)],
                     space, level)
    ELSE h

\* the body of indent_html once indented_element, the last element of h, has
\* been created from el
indent_element(h, indented_element, el, space, level) ==
    IF Lower(el.tag) \in TAGS_PREFORMATTED \cup TAGS_INLINE
    THEN [h |-> ReattachChildren(h, indented_element, el), e |-> indented_element]
    ELSE [h |-> indent_last_child(
                    indent_children(
                        SetText(h, indented_element,
                                indent_text(el.text, Len(el.children) > 0, space, level)),
                        indented_element, el.children, 1, space, level),
                    indented_element, space, level),
          e |-> indented_element]

\* indent_html(element, space, level): the heap after the call and the
\* element returned
indent_html(h, element, space, level) ==
    indent_element(CopyElement(h, h[element]), Len(h) + 1, h[element], space, level)

(***************************************************************************)
(* serialize_html                                                          *)
(***************************************************************************)
AMP_ENTITY == <<"&", "a", "m", "p", ";">>
LT_ENTITY == <<"&", "l", "t", ";">>
GT_ENTITY == <<"&", "g", "t", ";">>
QUOT_ENTITY == <<"&", "q", "u", "o", "t", ";">>

\* if old in text: text = text.replace(old, new)
replace_if_in(text, old, new) ==
    IF old \in Range(text) THEN str_replace(text, old, new) ELSE text

\* _escape_cdata with the replacement of "&" made last instead of first
_escape_cdata_amp_last(text) ==
    replace_if_in(replace_if_in(replace_if_in(text, "<", LT_ENTITY),
                                ">", GT_ENTITY),
                  "&", AMP_ENTITY)

_escape_cdata(text) ==
    replace_if_in(replace_if_in(replace_if_in(text, "&", AMP_ENTITY),
                                "<", LT_ENTITY),
                  ">", GT_ENTITY)

\* _escape_attrib_html without the replacement of the double quote
_escape_attrib_html_no_quot(text) ==
    replace_if_in(replace_if_in(text, "&", AMP_ENTITY), ">", GT_ENTITY)

_escape_attrib_html(text) ==
    replace_if_in(replace_if_in(replace_if_in(text, "&", AMP_ENTITY),
                                ">", GT_ENTITY),
                  QUOT, QUOT_ENTITY)

\* serialize_item with every bool emitted as the bare name, False too
serialize_item_any_bool(k, v) ==
    IF v # None /\ ~IsBool(v)
    THEN <<SP, k, "=", QUOT>> \o _escape_attrib_html(v) \o <<QUOT>>
    ELSE <<SP, k>>

\* one attribute of the attrib string of serialize_html
serialize_item(k, v) ==
    IF ~IsBool(v) \/ Truthy(v)
    THEN IF v # None /\ ~IsBool(v)
         THEN <<SP, k, "=", QUOT>> \o _escape_attrib_html(v) \o <<QUOT>>
         ELSE <<SP, k>>
    ELSE <<>>

RECURSIVE serialize_attrib(_)
\* the attrib string of serialize_html, over element.items()
serialize_attrib(items) ==
    IF items = <<>> THEN <<>>
    ELSE serialize_item(Head(items)[1], Head(items)[2])
         \o serialize_attrib(Tail(items))

\* opening_tag + text + children + closing_tag + tail of the element el,
\* given the string of its children
serialize_element(el, children) ==
    <<"<", el.tag>> \o serialize_attrib(el.attrib)
    \o (IF Lower(el.tag) \in TAGS_EMPTY THEN <<"/">> ELSE <<>>) \o <<">">>
    \o (IF el.text # None
        THEN IF Lower(el.tag) \in TAGS_NOT_ESCAPED THEN el.text
             ELSE _escape_cdata(el.text)
        ELSE <<>>)
    \o children
    \o (IF Lower(el.tag) \notin TAGS_EMPTY THEN <<"<", "/", el.tag, ">">> ELSE <<>>)
    \o (IF el.tail # None THEN _escape_cdata(el.tail) ELSE <<>>)

\* if strip: element = strip_html(element)
strip_if(h, element, strip) ==
    IF Truthy(strip) THEN strip_html(h, element) ELSE [h |-> h, e |-> element]

\* if indent: element = indent_html(element, space=space)
indent_if(r, indent, space) ==
    IF Truthy(indent) THEN indent_html(r.h, r.e, space, 0) ELSE r

RECURSIVE serialize_html(_, _, _, _, _, _), serialize_children(_, _, _, _)

\* r.s followed by the strings of the children after the one r is the result of
serialize_rest(r, rest) == [h |-> rest.h, s |-> r.s \o rest.s]

serialize_next(r, config, kids, i) ==
    serialize_rest(r, serialize_children(r.h, config, kids, i + 1))

\* "".join(serialize_html(e) for e in element): each child is serialized by
\* a call that passes no option, so each call reads the global configuration
serialize_children(h, config, kids, i) ==
    IF i > Len(kids) THEN [h |-> h, s |-> <<>>]
    ELSE serialize_next(serialize_html(h, config, kids[i], None, None, None),
                        config, kids, i)

\* the string of el, an element of h, and the heap once its children are
\* serialized
serialize_with(el, children) ==
    [h |-> children.h, s |-> serialize_element(el, children.s)]

\* serialize_html from the attrib string on, for r.e stripped and indented
serialize_tree(r, config) ==
    serialize_with(r.h[r.e], serialize_children(r.h, config, r.h[r.e].children, 1))

\* if strip: element = strip_html(element), for r.e the element
strip_if_r(r, strip) == strip_if(r.h, r.e, strip)

\* serialize_html that indents before it strips
serialize_html_indent_first(h, config, element, indent, space, strip) ==
    serialize_tree(
        strip_if_r(indent_if([h |-> h, e |-> element],
                             IF indent = None THEN config.indent_html ELSE indent,
                             IF space = None THEN config.indent_space ELSE space),
                   IF strip = None THEN config.strip_html ELSE strip),
        config)

\* serialize_html(element, indent, space, strip) when the global
\* configuration is config: the heap after the call and the string returned
serialize_html(h, config, element, indent, space, strip) ==
    serialize_tree(
        indent_if(strip_if(h, element,
                           IF strip = None THEN config.strip_html ELSE strip),
                  IF indent = None THEN config.indent_html ELSE indent,
                  IF space = None THEN config.indent_space ELSE space),
        config)

(***************************************************************************)
(* Global configuration                                                    *)
(***************************************************************************)
\* the options of _global_config that the pipeline reads, as the module sets them
DefaultConfig ==
    [indent_html |-> False, indent_space |-> <<SP, SP>>, strip_html |-> False]

\* set_config that assigns every option, the ones passed as None too
set_config_none_assigned(config, kw) == [param \in DOMAIN config |-> kw[param]]

\* set_config(**kw): every option passed with a value other than None is set
set_config(config, kw) ==
    [param \in DOMAIN config |-> IF kw[param] # None THEN kw[param] ELSE config[param]]

(***************************************************************************)
(* The pipeline as a state machine: a caller builds a tree, sets the       *)
(* global configuration and calls strip_html, indent_html and              *)
(* serialize_html on the tree or on the tree the last call returned.       *)
(***************************************************************************)
\* how many times in a row a call is made on the tree the call before returned
MaxChain == 1

Node(tag, attrib, text, tail, children) ==
    [tag |-> tag, attrib |-> attrib, text |-> text, tail |-> tail,
     children |-> children]

PAD_A == <<SP, "a", SP>>

\* root > child > grandchild, the tree of the tests' sample_elem cut down
ChainTrees ==
    {<<Node(t1, <<>>, None, None, <<2>>),
       Node(t2, <<>>, x, None, <<3>>),
       Node("span", <<>>, None, x, <<>>)>> :
        t1 \in {"div", "span"}, t2 \in {"p"}, x \in {None, PAD_A}}
    \cup {<<Node("div", <<>>, None, None, <<2>>),
            Node("PRE", <<>>, PAD_A, None, <<3>>),
            Node("span", <<>>, None, <<NL>>, <<>>)>>}

\* root with two children
PairTrees ==
    {<<Node("div", <<>>, x1, None, <<2, 3>>),
       Node(t2, <<>>, <<"a", NL, SP, "a">>, l2, <<>>),
       Node("p", <<>>, PAD_A, <<NL>>, <<>>)>> :
        x1 \in {<<NL>>}, t2 \in {"style", "b"}, l2 \in {<<"a", SP>>}}

\* a void element that was given a text, a tail or a child
VoidTrees ==
    {<<Node(t1, <<<<"id", <<"a">>>>>>, x1, l1, <<>>)>> :
        t1 \in {"br", "BR"}, x1 \in {None, <<"a">>}, l1 \in {<<"<">>}}
    \cup {<<Node("p", <<>>, None, None, <<2>>), Node("hr", <<>>, None, None, <<3>>),
            Node("b", <<>>, None, None, <<>>)>>}

InitTrees == ChainTrees \cup PairTrees \cup VoidTrees

\* the keyword arguments set_config is called with: one option is given a
\* value, the others are left None
NoArgs == [indent_html |-> None, indent_space |-> None, strip_html |-> None]

ConfigArgs ==
    {[NoArgs EXCEPT !.indent_html = v] : v \in {True, False}}
    \cup {[NoArgs EXCEPT !.indent_space = <<SP>>]}
    \cup {[NoArgs EXCEPT !.strip_html = v] : v \in {True, False}}

NoResult == [e |-> 0, s |-> <<>>, chain |-> 0]

NoCall == [op |-> "none", e |-> 0, indent |-> None, space |-> None, strip |-> None]

ParserIdle ==
    /\ _builder = <<>>
    /\ _empty_tag = None
    /\ cdata_elem = None
    /\ rawdata = <<>>
    /\ input = <<>>
    /\ pstate = "idle"

\* a reference to a dict: to no dict, to the dict _global_config, or to a
\* copy, which has one holder and is kept with it
NoDict == [obj |-> "none", items |-> <<>>]
TheGlobal == [obj |-> "_global_config", items |-> <<>>]

\* no config_context block is entered and get_config() was not called
ContextIdle ==
    /\ frames = <<>>
    /\ held = NoDict

Init ==
    /\ heap \in InitTrees
    /\ orig = heap
    /\ root = 1
    /\ _global_config = DefaultConfig
    /\ call = NoCall
    /\ pre = heap
    /\ result = NoResult
    /\ ParserIdle
    /\ ContextIdle

\* the elements a call can be made on: the tree built and the tree returned
Targets == {root} \cup (IF result.e # 0 THEN {result.e} ELSE {})

\* the heap a call on e starts from: a call on the tree built is made after
\* the tree returned before has been dropped
Base(e) == IF e = root THEN SubSeq(heap, 1, Len(orig)) ELSE heap

\* result.chain counts the calls in a row made on a returned tree
CanCall(e) == e = root \/ result.chain <= MaxChain

Chain(e) == IF e = root THEN 1 ELSE result.chain + 1

SetConfig(kw) ==
    /\ _global_config' = set_config(_global_config, kw)
    /\ _global_config' # _global_config
    /\ call' = NoCall
    /\ result' = NoResult
    /\ heap' = SubSeq(heap, 1, Len(orig))
    /\ pre' = heap'
    /\ UNCHANGED <<orig, root, parser_vars, context_vars>>

\* what a call leaves: the heap, the value returned and the call made
Returned(h, res, base, made) ==
    /\ heap' = h
    /\ result' = res
    /\ pre' = base
    /\ call' = made
    /\ UNCHANGED <<orig, root, _global_config, parser_vars, context_vars>>

TreeReturned(r, e, base, made) ==
    Returned(r.h, [e |-> r.e, s |-> <<>>, chain |-> Chain(e)], base, made)

\* the elements serialize_html created are dropped when it returns its string
StringReturned(r, e, base, made) ==
    Returned(SubSeq(r.h, 1, Len(base)),
             IF e = root THEN [NoResult EXCEPT !.s = r.s]
             ELSE [result EXCEPT !.s = r.s, !.chain = Chain(e)],
             base, made)

Strip(e) ==
    /\ CanCall(e)
    /\ TreeReturned(strip_html(Base(e), e), e, Base(e),
                    [NoCall EXCEPT !.op = "strip", !.e = e])

Indent(e, space) ==
    /\ CanCall(e)
    /\ TreeReturned(indent_html(Base(e), e, space, 0), e, Base(e),
                    [NoCall EXCEPT !.op = "indent", !.e = e, !.space = space])

Serialize(e, indent, space, strip) ==
    /\ CanCall(e)
    /\ StringReturned(
           serialize_html(Base(e), _global_config, e, indent, space, strip),
           e, Base(e),
           [op |-> "serialize", e |-> e, indent |-> indent, space |-> space,
            strip |-> strip])

Next ==
    \/ \E kw \in ConfigArgs : SetConfig(kw)
    \/ \E e \in Targets : Strip(e)
    \/ \E e \in Targets, space \in {<<SP>>, <<SP, SP>>} : Indent(e, space)
    \/ \E e \in Targets, indent \in {None, True, False}, space \in {None, <<SP>>},
          strip \in {None, True, False} : Serialize(e, indent, space, strip)

Spec == Init /\ [][Next]_vars

(***************************************************************************)
(* Escaping as a state machine: a caller builds one element whose text,    *)
(* tail or attribute values hold the characters that serialize_html        *)
(* escapes, and serializes it.                                             *)
(***************************************************************************)
\* the length of a text, of a tail and of an attribute value
MaxText == 2
MaxTail == 1
MaxValue == 2

\* the characters the escaping functions replace, and one they do not
Chars == {"&", "<", ">", QUOT, "a"}

\* the strings of at most n characters
Strs(n) == UNION {[1..k -> Chars] : k \in 0..n}

\* an element with a text and a tail, of a tag whose text is escaped, of one
\* whose text is not, and of one that is not lower case
TextTrees ==
    {<<Node(t, <<>>, x, l, <<>>)>> :
        t \in {"p", "style", "SCRIPT"},
        x \in Strs(MaxText) \cup {None},
        l \in Strs(MaxTail) \cup {None}}

\* the values of an attribute: None, a bool or a str
Values == Strs(MaxValue) \cup {None, True, False}

FewValues == {None, True, False, <<>>, <<QUOT>>}

\* an element with no attribute, one attribute or two, in both orders
AttribTrees ==
    {<<Node("p", a, None, None, <<>>)>> :
        a \in {<<>>}
            \cup {<< <<"id", v>> >> : v \in Values}
            \cup {<< <<"id", v>>, <<"class", w>> >> : v \in Values, w \in FewValues}
            \cup {<< <<"class", w>>, <<"id", v>> >> : v \in Values, w \in FewValues}}

InitEscape ==
    /\ heap \in TextTrees \cup AttribTrees
    /\ orig = heap
    /\ root = 1
    /\ _global_config = DefaultConfig
    /\ call = NoCall
    /\ pre = heap
    /\ result = NoResult
    /\ ParserIdle
    /\ ContextIdle

NextEscape ==
    \E indent \in {None, True}, strip \in {None, True} :
        Serialize(root, indent, None, strip)

SpecEscape == InitEscape /\ [][NextEscape]_vars

(***************************************************************************)
(* xml.etree.ElementTree.TreeBuilder, as _HTMLParser uses it.  The builder *)
(* is the one of the C accelerator _elementtree, which CPython imports     *)
(* when it is built: end(tag) closes the current element whatever tag is,  *)
(* and raises IndexError when no element is open; start raises ParseError  *)
(* when no element is open and the builder has its root already; close     *)
(* returns the root without looking at the elements still open.  An        *)
(* element reference is an index into elems, 0 is no element.              *)
(***************************************************************************)
\* ET.TreeBuilder()
TreeBuilder ==
    [elems |-> <<>>, stack |-> <<>>, this |-> 0, last |-> 0, last_for_tail |-> 0,
     data |-> <<>>, root |-> 0]

\* what a call leaves when it returns and when it raises
Done(b) == [b |-> b, exc |-> ""]
Raise(b, exc) == [b |-> b, exc |-> exc]

\* treebuilder_flush_data that makes the data the text of the element
\* started last, whether or not an element was ended since
treebuilder_flush_data_as_text(b) ==
    IF b.data = <<>> THEN b
    ELSE [b EXCEPT !.elems[b.last].text = b.data, !.data = <<>>]

\* the data collected becomes the text of the element started last, or the
\* tail of the element ended last
treebuilder_flush_data(b) ==
    IF b.data = <<>> THEN b
    ELSE IF b.last_for_tail = 0
         THEN [b EXCEPT !.elems[b.last].text = b.data, !.data = <<>>]
         ELSE [b EXCEPT !.elems[b.last_for_tail].tail = b.data, !.data = <<>>]

\* start(tag, attrib) once the data is flushed
start_element(b, tag, attrib) ==
    IF b.this = 0 /\ b.root # 0 THEN Raise(b, "ParseError")
    ELSE Done([b EXCEPT
                 !.elems = Append(IF b.this # 0
                                  THEN AppendChild(b.elems, b.this, Len(b.elems) + 1)
                                  ELSE b.elems,
                                  Node(tag, attrib, None, None, <<>>)),
                 !.root = IF b.this = 0 THEN Len(b.elems) + 1 ELSE @,
                 !.stack = Append(@, b.this),
                 !.this = Len(b.elems) + 1,
                 !.last = Len(b.elems) + 1,
                 !.last_for_tail = 0])

\* TreeBuilder.start(tag, attrib)
treebuilder_handle_start(b, tag, attrib) ==
    start_element(treebuilder_flush_data(b), tag, attrib)

\* end(tag) once the data is flushed
end_element(b) ==
    IF b.stack = <<>> THEN Raise(b, "IndexError")
    ELSE Done([b EXCEPT
                 !.last = b.this,
                 !.last_for_tail = b.this,
                 !.this = b.stack[Len(b.stack)],
                 !.stack = SubSeq(@, 1, Len(@) - 1)])

\* TreeBuilder.end(tag)
treebuilder_handle_end(b, tag) == end_element(treebuilder_flush_data(b))

\* TreeBuilder.data(data): data that comes before any start is ignored
treebuilder_handle_data(b, data) ==
    IF b.data = <<>> /\ b.last = 0 THEN b ELSE [b EXCEPT !.data = @ \o data]

\* TreeBuilder.close()
treebuilder_done(b) == b.root

(***************************************************************************)
(* html.parser.HTMLParser: what it makes of the tags and of the text       *)
(* before it calls a handler                                               *)
(***************************************************************************)
CDATA_CONTENT_ELEMENTS == {"script", "style"}

\* s starts with p
StartsWith(s, p) == Len(s) >= Len(p) /\ SubSeq(s, 1, Len(p)) = p

\* s without its first n characters, and without the semicolon after them
AfterName(s, n) ==
    IF Len(s) > n /\ s[n + 1] = ";" THEN SubSeq(s, n + 2, Len(s))
    ELSE SubSeq(s, n + 1, Len(s))

\* html.unescape keeps s as it is
NoUnescape(s) == s

RECURSIVE unescape(_)
\* html.unescape(s), for the references &amp; &lt; &gt; &quot;, which it
\* replaces with their semicolon or without it
unescape(s) ==
    IF s = <<>> THEN <<>>
    ELSE IF StartsWith(s, <<"&", "a", "m", "p">>)
         THEN <<"&">> \o unescape(AfterName(s, 4))
    ELSE IF StartsWith(s, <<"&", "l", "t">>)
         THEN <<"<">> \o unescape(AfterName(s, 3))
    ELSE IF StartsWith(s, <<"&", "g", "t">>)
         THEN <<">">> \o unescape(AfterName(s, 3))
    ELSE IF StartsWith(s, <<"&", "q", "u", "o", "t">>)
         THEN <<QUOT>> \o unescape(AfterName(s, 5))
    ELSE <<Head(s)>> \o unescape(Tail(s))

\* d[k] = v: a key the dict has keeps its place
dict_set(d, k, v) ==
    IF \E i \in 1..Len(d) : d[i][1] = k
    THEN [i \in 1..Len(d) |-> IF d[i][1] = k THEN <<k, v>> ELSE d[i]]
    ELSE Append(d, <<k, v>>)

RECURSIVE dict_from(_, _)
dict_from(d, items) ==
    IF items = <<>> THEN d
    ELSE dict_from(dict_set(d, Head(items)[1], Head(items)[2]), Tail(items))

\* dict(attrs)
dict(attrs) == dict_from(<<>>, attrs)

\* parsed_attrs that hands over the empty string for an attribute that has
\* no value
parsed_attrs_empty_value(attrs) ==
    [i \in 1..Len(attrs) |->
        <<Lower(attrs[i][1]),
          IF attrs[i][2] = None THEN <<>> ELSE unescape(attrs[i][2])>>]

\* the attrs parse_starttag hands to handle_starttag: the names in lower
\* case, the values unescaped, None for an attribute that has no value
parsed_attrs(attrs) ==
    [i \in 1..Len(attrs) |->
        <<Lower(attrs[i][1]),
          IF attrs[i][2] = None THEN None ELSE unescape(attrs[i][2])>>]

(***************************************************************************)
(* _HTMLParser                                                             *)
(***************************************************************************)
\* _HTMLParser(): the builder with the synthetic root started
_HTMLParser == treebuilder_handle_start(TreeBuilder, "root", <<>>).b

\* what a handler leaves: the builder, _empty_tag and the exception raised
Handler(r, et) == [b |-> r.b, et |-> et, exc |-> r.exc]

\* self._builder.start(tag, dict(attrs)) and the _empty_tag set before it
start_tag(r, et, tag, attrs) ==
    IF r.exc # "" THEN Handler(r, et)
    ELSE Handler(treebuilder_handle_start(r.b, tag, dict(attrs)),
                 IF Lower(tag) \in TAGS_EMPTY THEN <<tag>> ELSE None)

handle_starttag(b, et, tag, attrs) ==
    start_tag(IF Truthy(et) THEN treebuilder_handle_end(b, et[1]) ELSE Done(b),
              et, tag, attrs)

\* self._empty_tag = None; self._builder.end(tag)
end_tag(r, et, tag) ==
    IF r.exc # "" THEN Handler(r, et)
    ELSE Handler(treebuilder_handle_end(r.b, tag), None)

\* handle_endtag that leaves the void element open
handle_endtag_void_left_open(b, et, tag) == end_tag(Done(b), et, tag)

handle_endtag(b, et, tag) ==
    end_tag(IF Truthy(et) /\ Lower(et[1]) # Lower(tag)
            THEN treebuilder_handle_end(b, et[1]) ELSE Done(b),
            et, tag)

\* self._builder.data(data) after the void element was ended
data_after(r, et, data) ==
    IF r.exc # "" THEN Handler(r, et)
    ELSE Handler(Done(treebuilder_handle_data(r.b, data)), None)

\* handle_data that leaves the void element open
handle_data_no_end(b, et, data) ==
    Handler(Done(treebuilder_handle_data(b, data)), et)

handle_data(b, et, data) ==
    data_after(IF Truthy(et) THEN treebuilder_handle_end(b, et[1]) ELSE Done(b),
               et, data)

\* handle_endtag unless handle_starttag raised
end_tag_after(r, tag) ==
    IF r.exc # "" THEN r ELSE handle_endtag(r.b, r.et, tag)

\* HTMLParser.handle_startendtag: handle_starttag, then handle_endtag
handle_startendtag(b, et, tag, attrs) ==
    end_tag_after(handle_starttag(b, et, tag, attrs), tag)

\* self._builder.end(self._root) of close
close(b, et) == Handler(treebuilder_handle_end(b, "root"), et)

(***************************************************************************)
(* parse_html as a state machine: the string is read lexeme by lexeme, a   *)
(* start tag, an end tag or a run of text at a time, and each is handed to *)
(* its handler; then the parser is closed.                                 *)
(***************************************************************************)
\* how many lexemes the string holds
MaxTokens == 4

StartTag(tag, attrs) == [kind |-> "start", tag |-> tag, attrs |-> attrs, text |-> <<>>]
StartEndTag(tag, attrs) == [kind |-> "startend", tag |-> tag, attrs |-> attrs, text |-> <<>>]
EndTag(tag) == [kind |-> "end", tag |-> tag, attrs |-> <<>>, text |-> <<>>]
Data(text) == [kind |-> "data", tag |-> "", attrs |-> <<>>, text |-> text]

\* <p> </p> <br> </br> <br/> a
CoreLexemes ==
    {StartTag("p", <<>>), EndTag("p"), StartTag("br", <<>>), EndTag("br"),
     StartEndTag("br", <<>>), Data(<<"a">>)}

\* <P> </P> <p ID="a">
CaseLexemes ==
    {StartTag("P", <<>>), EndTag("P"), StartTag("p", << <<"ID", <<"a">> >> >>)}

\* <p id="&amp;&gt;&quot;<" hidden class=""> <p id=">"> <p id="a" id="b">
AttrLexemes ==
    {StartTag("p", << <<"id", AMP_ENTITY \o GT_ENTITY \o QUOT_ENTITY \o <<"<">> >>,
                      <<"hidden", None>>, <<"class", <<>> >> >>),
     StartTag("p", << <<"id", <<">">> >> >>),
     StartTag("p", << <<"id", <<"a">> >>, <<"id", <<"b">> >> >>)}

\* <style> </style> &amp;&lt;&gt;" &quot;
TextLexemes ==
    {StartTag("style", <<>>), EndTag("style"),
     Data(AMP_ENTITY \o LT_ENTITY \o GT_ENTITY \o <<QUOT>>), Data(QUOT_ENTITY)}

Families == {CaseLexemes, AttrLexemes, TextLexemes}

Lexemes == CoreLexemes \cup UNION Families

RECURSIVE RawAttrs(_)
\* the attributes of a start tag as they are written
RawAttrs(attrs) ==
    IF attrs = <<>> THEN <<>>
    ELSE <<SP, Head(attrs)[1]>>
         \o (IF Head(attrs)[2] = None THEN <<>>
             ELSE <<"=", QUOT>> \o Head(attrs)[2] \o <<QUOT>>)
         \o RawAttrs(Tail(attrs))

\* a lexeme as it is written in the string
Raw(lex) ==
    CASE lex.kind = "start" -> <<"<", lex.tag>> \o RawAttrs(lex.attrs) \o <<">">>
      [] lex.kind = "startend" ->
             <<"<", lex.tag>> \o RawAttrs(lex.attrs) \o <<"/", ">">>
      [] lex.kind = "end" -> <<"<", "/", lex.tag, ">">>
      [] OTHER -> lex.text

InitParse ==
    /\ heap = <<>>
    /\ orig = <<>>
    /\ root = 0
    /\ _global_config = DefaultConfig
    /\ call = NoCall
    /\ pre = <<>>
    /\ result = NoResult
    /\ _builder = _HTMLParser
    /\ _empty_tag = None
    /\ cdata_elem = None
    /\ rawdata = <<>>
    /\ input = <<>>
    /\ pstate = "feeding"
    /\ ContextIdle

\* lex can be read next: the string holds lexemes of the core and of one
\* family
CanRead(lex) ==
    /\ pstate = "feeding"
    /\ Len(input) < MaxTokens
    /\ \/ lex \in CoreLexemes
       \/ \E F \in Families :
              lex \in F /\ \A i \in 1..Len(input) : input[i] \in CoreLexemes \cup F

\* what reading lex leaves
Read(r, lex, cdata, raw) ==
    /\ _builder' = r.b
    /\ _empty_tag' = r.et
    /\ pstate' = IF r.exc = "" THEN "feeding" ELSE r.exc
    /\ cdata_elem' = cdata
    /\ rawdata' = raw
    /\ input' = Append(input, lex)
    /\ UNCHANGED <<pipeline_vars, context_vars>>

\* lex is the end tag of the script or style that is open
EndsCdata(lex) == lex.kind = "end" /\ <<Lower(lex.tag)>> = cdata_elem

\* parse_starttag: handle_starttag, then set_cdata_mode for script and style
HandleStartTag(lex) ==
    /\ CanRead(lex)
    /\ cdata_elem = None
    /\ lex.kind = "start"
    /\ Read(handle_starttag(_builder, _empty_tag, Lower(lex.tag),
                            parsed_attrs(lex.attrs)),
            lex,
            IF Lower(lex.tag) \in CDATA_CONTENT_ELEMENTS THEN <<Lower(lex.tag)>>
            ELSE None,
            <<>>)

\* parse_starttag of a tag that ends with />
HandleStartEndTag(lex) ==
    /\ CanRead(lex)
    /\ cdata_elem = None
    /\ lex.kind = "startend"
    /\ Read(handle_startendtag(_builder, _empty_tag, Lower(lex.tag),
                               parsed_attrs(lex.attrs)),
            lex, None, <<>>)

\* parse_endtag
HandleEndTag(lex) ==
    /\ CanRead(lex)
    /\ cdata_elem = None
    /\ lex.kind = "end"
    /\ Read(handle_endtag(_builder, _empty_tag, Lower(lex.tag)), lex, None, <<>>)

\* goahead: the text up to the next tag, unescaped
HandleData(lex) ==
    /\ CanRead(lex)
    /\ cdata_elem = None
    /\ lex.kind = "data"
    /\ Read(handle_data(_builder, _empty_tag, unescape(lex.text)), lex, None, <<>>)

\* goahead while a script or a style is open: whatever is not its end tag
\* is kept as its content
ReadCdata(lex) ==
    /\ CanRead(lex)
    /\ cdata_elem # None
    /\ ~EndsCdata(lex)
    /\ Read(Handler(Done(_builder), _empty_tag), lex, cdata_elem,
            rawdata \o Raw(lex))

\* the content of the script or style, handed over as it is, if there is any
cdata_handled(b, et, raw) ==
    IF raw = <<>> THEN Handler(Done(b), et) ELSE handle_data(b, et, raw)

\* goahead at the end tag of the script or style that is open: its content
\* is handed to handle_data, then parse_endtag
HandleCdataEnd(lex) ==
    /\ CanRead(lex)
    /\ cdata_elem # None
    /\ EndsCdata(lex)
    /\ Read(end_tag_after(cdata_handled(_builder, _empty_tag, rawdata),
                          Lower(lex.tag)),
            lex, None, <<>>)

\* what close leaves
Closed(r) ==
    /\ _builder' = r.b
    /\ pstate' = IF r.exc = "" THEN "closed" ELSE r.exc
    /\ UNCHANGED <<_empty_tag, cdata_elem, rawdata, input, pipeline_vars, context_vars>>

\* parser.close(): the content of a script or style still open is dropped
Close ==
    /\ pstate = "feeding"
    /\ Closed(close(_builder, _empty_tag))

\* tuple(self._builder.close()): the children of the synthetic root
Forest == _builder.elems[treebuilder_done(_builder)].children

NextParse ==
    \/ \E lex \in Lexemes : HandleStartTag(lex)
    \/ \E lex \in Lexemes : HandleStartEndTag(lex)
    \/ \E lex \in Lexemes : HandleEndTag(lex)
    \/ \E lex \in Lexemes : HandleData(lex)
    \/ \E lex \in Lexemes : ReadCdata(lex)
    \/ \E lex \in Lexemes : HandleCdataEnd(lex)
    \/ Close

SpecParse == InitParse /\ [][NextParse]_vars

(***************************************************************************)
(* Formatting as a state machine: a caller builds a tree whose texts and   *)
(* tails hold blanks, newlines and text, and calls strip_html, indent_html *)
(* and serialize_html on it; it strips the tree strip_html returned once   *)
(* more, and it serializes the tree that indent_html returns for the       *)
(* stripped tree.                                                          *)
(***************************************************************************)
\* the number of blanks of the widest indentation space
MaxIndent == 2

\* the values of space: one blank, two blanks, ...
Spaces == {Repeat(<<SP>>, n) : n \in 1..MaxIndent}

\* no text, an empty text, blank text, padded text, text of two lines, and
\* indented text of two lines between newlines
FormatTexts ==
    {None, <<>>, <<SP>>, PAD_A, <<"a", NL, SP, "a">>,
     <<NL, SP, "a", NL, SP, SP, "a", NL>>}

\* an element with no children: block-level, inline, preformatted and one
\* whose text is not escaped
LeafTrees ==
    {<<Node(t, <<>>, x, l, <<>>)>> :
        t \in {"div", "span", "PRE", "style"}, x \in FormatTexts,
        l \in {None, <<SP>>}}

\* root > (child > grandchild), p: the children and the grandchild have no
\* tail, a blank tail, or a tail that holds text
FamilyTrees ==
    {<<Node(t1, <<>>, x1, None, <<2, 3>>),
       Node(t2, <<>>, x2, l2, <<4>>),
       Node("p", <<>>, PAD_A, l3, <<>>),
       Node("p", <<>>, <<SP, "a">>, l4, <<>>)>> :
        t1 \in {"div", "span"}, x1 \in {None, PAD_A},
        t2 \in {"div", "pre", "b"}, x2 \in {<<SP>>, PAD_A},
        l2 \in {None, <<SP>>, <<"a">>},
        l3 \in {None, PAD_A},
        l4 \in {<<SP>>, <<"a", SP>>}}

\* p > b, (i or p): inline children of a block-level element that has
\* attributes, with no tail, an empty tail, or a tail that holds text
InlineTrees ==
    {<<Node("p", << <<"class", <<"a">> >>, <<"hidden", None>> >>, x1, None, <<2, 3>>),
       Node("b", <<>>, <<"a">>, l2, <<>>),
       Node(t3, <<>>, <<"b">>, l3, <<>>)>> :
        x1 \in {None, <<"a", SP>>}, l2 \in {None, <<>>, <<"a">>},
        t3 \in {"i", "p"}, l3 \in {None, <<>>}}

FormatTrees == LeafTrees \cup FamilyTrees \cup InlineTrees

InitFormat ==
    /\ heap \in FormatTrees
    /\ orig = heap
    /\ root = 1
    /\ _global_config = DefaultConfig
    /\ call = NoCall
    /\ pre = heap
    /\ result = NoResult
    /\ ParserIdle
    /\ ContextIdle

\* strip_html(stripped), for stripped the tree strip_html(root) returned
StripAgain ==
    /\ call.op = "strip"
    /\ call.e = root
    /\ result.e # 0
    /\ TreeReturned(strip_html(heap, result.e), result.e, heap,
                    [NoCall EXCEPT !.op = "strip", !.e = result.e])

\* indent_html(r.e, space), for r what strip_html returned
indent_stripped(r, space) == indent_html(r.h, r.e, space, 0)

\* serialize_html(r.e, indent=False, strip=False), for r what indent_html
\* returned
serialize_indented(r, config) == serialize_html(r.h, config, r.e, False, None, False)

\* serialize_html(indent_html(strip_html(element), space), indent=False,
\* strip=False)
serialize_composed(h, config, element, space) ==
    serialize_indented(indent_stripped(strip_html(h, element), space), config)

\* after serialize_html(root, indent=True, space=space, strip=True), whose
\* string is kept in call.direct, the caller strips, indents and serializes
\* root a step at a time
SerializeComposed ==
    /\ call.op = "serialize"
    /\ call.e = root
    /\ call.indent = True
    /\ call.strip = True
    /\ call.space # None
    /\ Returned(Base(root),
                [NoResult EXCEPT
                    !.s = serialize_composed(Base(root), _global_config, root,
                                             call.space).s],
                Base(root),
                [op |-> "compose", e |-> root, indent |-> False,
                 space |-> call.space, strip |-> False, direct |-> result.s])

\* serialize_html(indented, indent=False, strip=False), for indented the
\* tree indent_html(root, space) returned
SerializeIndented ==
    /\ call.op = "indent"
    /\ call.e = root
    /\ result.e # 0
    /\ Returned(Base(root),
                [NoResult EXCEPT
                    !.s = serialize_indented([h |-> heap, e |-> result.e],
                                             _global_config).s],
                Base(root),
                [op |-> "serialize_indented", e |-> root, indent |-> False,
                 space |-> call.space, strip |-> False])

NextFormat ==
    \/ Strip(root)
    \/ \E space \in Spaces : Indent(root, space)
    \/ StripAgain
    \/ \E space \in Spaces : Serialize(root, True, space, True)
    \/ SerializeComposed
    \/ SerializeIndented

SpecFormat == InitFormat /\ [][NextFormat]_vars

(***************************************************************************)
(* rico.html, the earlier module: its indent_html, and a caller that calls *)
(* it on the tree it built, once or several times                          *)
(***************************************************************************)
UNINDENTED_TAGS == {"pre"}

\* the text indent_html of rico.html gives an element with children
html_indent_text(text, space, level) ==
    IF BlankTail(text) THEN <<NL>> \o Repeat(space, level + 1) ELSE text

RECURSIVE html_indent_html(_, _, _, _), html_indent_children(_, _, _, _, _, _)

\* the tail of indented_child is set, then the child is appended
html_indent_child(r, indented_element, space, level) ==
    AppendChild(indent_tail(r.h, r.e, space, level + 1), indented_element, r.e)

\* for child in element
html_indent_children(h, indented_element, kids, i, space, level) ==
    IF i > Len(kids) THEN h
    ELSE html_indent_children(
             html_indent_child(html_indent_html(h, kids[i], space, level + 1),
                               indented_element, space, level),
             indented_element, kids, i + 1, space, level)

\* after the loop indented_child is the child appended last
html_indent_last_child(h, indented_element, space, level) ==
    indent_tail(h, h[indented_element].children[Len(h[indented_element].children)],
                space, level)

\* indent_html of rico.html from the creation of indented_element on
html_indent_element(h, indented_element, el, space, level) ==
    [h |-> html_indent_last_child(
               html_indent_children(
                   SetText(h, indented_element,
                           html_indent_text(el.text, space, level)),
                   indented_element, el.children, 1, space, level),
               indented_element, space, level),
     e |-> indented_element]

\* rico.html.indent_html(element, space, level): a pre element and an
\* element without children are returned as they are
html_indent_html(h, element, space, level) ==
    IF h[element].tag \in UNINDENTED_TAGS \/ Len(h[element].children) = 0
    THEN [h |-> h, e |-> element]
    ELSE html_indent_element(CopyElement(h, h[element]), Len(h) + 1, h[element],
                             space, level)

\* rico.html.indent_html(root, space)
HtmlIndent(space) ==
    TreeReturned(html_indent_html(Base(root), root, space, 0), root, Base(root),
                 [NoCall EXCEPT !.op = "html_indent", !.e = root, !.space = space])

NextEarlier == \E space \in Spaces : HtmlIndent(space)

SpecEarlier == InitFormat /\ [][NextEarlier]_vars

(***************************************************************************)
(* The configuration as a state machine: a caller calls set_config and     *)
(* get_config, changes the dictionary get_config() returned, and enters    *)
(* and leaves config_context blocks, nested in one another.                *)
(***************************************************************************)
\* how many config_context blocks are nested
MaxDepth == 2

\* md_renderer when markdown_it is installed, and a callable of the caller
MarkdownIt == <<"markdown_it.MarkdownIt().render">>
Custom == <<"render">>

\* the options of _global_config that the configuration functions, Script
\* and Style are followed on, as the module sets them; md_renderer is None
\* when neither markdown_it nor markdown can be imported
ModuleConfig(md_renderer) ==
    [indent_html |-> False, inline_scripts |-> False, inline_styles |-> False,
     markdown_renderer |-> md_renderer]

\* _global_config.copy()
dict_copy(d) == [obj |-> "copy", items |-> d]

\* the items of the dict a reference is to
Items(ref, config) == IF ref.obj = "_global_config" THEN config ELSE ref.items

\* d[k] = v for d the dict a reference is to: the global configuration and
\* the reference after it
setitem(ref, config, k, v) ==
    IF ref.obj = "_global_config"
    THEN [config |-> [config EXCEPT ![k] = v], ref |-> ref]
    ELSE [config |-> config, ref |-> [ref EXCEPT !.items[k] = v]]

\* get_config that returns _global_config itself
get_config_no_copy(config, option) ==
    IF option # None THEN config[option[1]] ELSE TheGlobal

\* get_config(option): option is None or holds the name of an option
get_config(config, option) ==
    IF option # None THEN config[option[1]] ELSE dict_copy(config)

\* the keyword arguments of set_config and config_context: none given, or
\* one option given a value
NoOptions ==
    [indent_html |-> None, inline_scripts |-> None, inline_styles |-> None,
     markdown_renderer |-> None]

OptionArgs ==
    {NoOptions}
    \cup {[NoOptions EXCEPT !.indent_html = v] : v \in {True, False}}
    \cup {[NoOptions EXCEPT !.inline_scripts = True]}
    \cup {[NoOptions EXCEPT !.markdown_renderer = Custom]}

InitConfig ==
    /\ heap = <<>>
    /\ orig = <<>>
    /\ root = 0
    /\ _global_config \in {ModuleConfig(md_renderer) : md_renderer \in {None, MarkdownIt}}
    /\ call = NoCall
    /\ pre = <<>>
    /\ result = NoResult
    /\ ParserIdle
    /\ ContextIdle

\* what a call of the configuration functions leaves; the call keeps its
\* argument, and the global configuration and the items of the caller's
\* dictionary as they were when it was made (history); the argument of
\* leaving a block is the global configuration as it was on entry
ConfigReturned(config, fr, ref, op, value, arg) ==
    /\ _global_config' = config
    /\ frames' = fr
    /\ held' = ref
    /\ call' = [op |-> op, arg |-> arg, before |-> _global_config,
                held_before |-> Items(held, _global_config)]
    /\ result' = [value |-> value]
    /\ UNCHANGED <<heap, orig, root, pre, parser_vars>>

\* set_config(**kw)
ConfigSet(kw) ==
    ConfigReturned(set_config(_global_config, kw), frames, held, "set_config",
                   None, kw)

\* config = get_config()
ConfigGet ==
    ConfigReturned(_global_config, frames, get_config(_global_config, None),
                   "get_config", get_config(_global_config, None), None)

\* get_config(option)
ConfigGetOption(option) ==
    ConfigReturned(_global_config, frames, held, "get_option",
                   get_config(_global_config, option), option)

\* what config[k] = v leaves, a step of the caller
ItemSet(r) ==
    ConfigReturned(r.config, frames, r.ref, "setitem", None, None)

\* config["indent_html"] = not config["indent_html"], for config the
\* dictionary get_config() returned
DictSetItem(k) ==
    /\ held # NoDict
    /\ ItemSet(setitem(held, _global_config, k,
                       IF Items(held, _global_config)[k] = True THEN False ELSE True))

\* with config_context(**kw): up to the yield.  old_config = get_config(),
\* then set_config(**new_config); the frame keeps old_config, and the
\* global configuration as it was on entry (history)
ContextEnter(kw) ==
    /\ Len(frames) < MaxDepth
    /\ ConfigReturned(set_config(_global_config, kw),
                      Append(frames, [old_config |-> get_config(_global_config, None),
                                      entered |-> _global_config]),
                      held, "enter", None, kw)

\* the innermost block is left, normally or by an exception raised in it:
\* the finally clause calls set_config(**old_config) in both cases
ContextExit(raised) ==
    /\ frames # <<>>
    /\ ConfigReturned(
           set_config(_global_config,
                      Items(frames[Len(frames)].old_config, _global_config)),
           SubSeq(frames, 1, Len(frames) - 1), held,
           IF raised THEN "exit_raised" ELSE "exit", None,
           frames[Len(frames)].entered)

NextConfig ==
    \/ \E kw \in OptionArgs : ConfigSet(kw)
    \/ ConfigGet
    \/ \E option \in {<<"indent_html">>, <<"markdown_renderer">>} :
           ConfigGetOption(option)
    \/ DictSetItem("indent_html")
    \/ \E kw \in OptionArgs : ContextEnter(kw)
    \/ \E raised \in BOOLEAN : ContextExit(raised)

SpecConfig == InitConfig /\ [][NextConfig]_vars

(***************************************************************************)
(* Script and Style (src/src/rico/_content.py) as a state machine: a       *)
(* caller sets the options inline_scripts and inline_styles and constructs *)
(* Script and Style objects.  What a constructor leaves is the element it  *)
(* created, if any, the footer attribute, the exception it raised, and the *)
(* links it opened with urllib.request.urlopen.                            *)
(***************************************************************************)
\* response.read().decode() of urlopen(src): the text the link holds
urlopen_read(src) == <<"t", "e", "x", "t", " ", "o", "f", " ">> \o src

\* raise ValueError(...): no element is created and no link was opened
ValueError(h) ==
    [h |-> h, container |-> 0, footer |-> False, exc |-> "ValueError",
     opened |-> <<>>]

\* self.container = ET.Element(tag, {**attrib, **extra});
\* self.container.text = text
Constructed(h, tag, attrib, text, footer, opened) ==
    [h |-> Append(h, Node(tag, attrib, text, None, <<>>)),
     container |-> Len(h) + 1, footer |-> footer, exc |-> "", opened |-> opened]

\* {"src": src, **attrib}, and {"defer": True, **attrib} when defer
script_attrib(src, defer, attrib) ==
    IF src # None
    THEN IF Truthy(defer)
         THEN dict_from(<< <<"defer", True>> >>,
                        dict_from(<< <<"src", src>> >>, attrib))
         ELSE dict_from(<< <<"src", src>> >>, attrib)
    ELSE attrib

\* Script.__init__ from `if src is not None` on; footer is the class
\* attribute, False, unless it is assigned defer
script_element(h, text, src, defer, attrib, opened) ==
    Constructed(h, "script", script_attrib(src, defer, attrib), text,
                IF src # None THEN False ELSE defer, opened)

\* Script.__init__ that opens the link before it looks at text and src
script_checked_download_first(h, inline, text, src, defer, attrib) ==
    IF Truthy(inline) /\ src # None
    THEN IF text # None
         THEN [ValueError(h) EXCEPT !.opened = <<src>>]
         ELSE script_element(h, urlopen_read(src), None, defer, attrib, <<src>>)
    ELSE IF (text # None /\ src # None) \/ (text = None /\ src = None)
         THEN ValueError(h)
         ELSE script_element(h, text, src, defer, attrib, <<>>)

\* Script.__init__ once inline is resolved
script_checked(h, inline, text, src, defer, attrib) ==
    IF text # None /\ src # None THEN ValueError(h)
    ELSE IF text = None /\ src = None THEN ValueError(h)
    ELSE IF Truthy(inline) /\ src # None
         THEN script_element(h, urlopen_read(src), None, defer, attrib, <<src>>)
         ELSE script_element(h, text, src, defer, attrib, <<>>)

\* Script(text, src, inline, defer, attrib)
Script(h, config, text, src, inline, defer, attrib) ==
    script_checked(h,
                   IF inline = None THEN get_config(config, <<"inline_scripts">>)
                   ELSE inline,
                   text, src, defer, attrib)

\* "rel" not in attrib
HasKey(d, k) == \E i \in 1..Len(d) : d[i][1] = k

\* {"href": src, **attrib}, with rel="stylesheet" unless attrib has a rel
style_attrib(src, attrib) ==
    IF src # None
    THEN IF HasKey(attrib, "rel")
         THEN dict_from(<< <<"href", src>> >>, attrib)
         ELSE dict_from(dict_from(<< <<"href", src>> >>, attrib),
                        << <<"rel", <<"s", "t", "y", "l", "e", "s", "h", "e", "e", "t">> >> >>)
    ELSE attrib

\* Style.__init__ from `if src is not None` on
style_element(h, text, src, attrib, opened) ==
    Constructed(h, IF src # None THEN "link" ELSE "style",
                style_attrib(src, attrib), text, False, opened)

\* Style.__init__ once inline is resolved
style_checked(h, inline, text, src, attrib) ==
    IF text # None /\ src # None THEN ValueError(h)
    ELSE IF text = None /\ src = None THEN ValueError(h)
    ELSE IF Truthy(inline) /\ src # None
         THEN style_element(h, urlopen_read(src), None, attrib, <<src>>)
         ELSE style_element(h, text, src, attrib, <<>>)

\* Style(text, src, inline, attrib): inline left None is read from the
\* option inline_scripts, as Style.__init__ does
Style(h, config, text, src, inline, attrib) ==
    style_checked(h,
                  IF inline = None THEN get_config(config, <<"inline_scripts">>)
                  ELSE inline,
                  text, src, attrib)

\* the arguments of the constructors
Texts == {None, <<"t">>}
Links == {None, <<"u">>}
ScriptAttribs == {<<>>, << <<"async", True>> >>}
StyleAttribs == {<<>>, << <<"rel", <<"x">> >> >>}

\* set_config(inline_scripts=v) and set_config(inline_styles=v)
InlineArgs ==
    {[NoOptions EXCEPT !.inline_scripts = v] : v \in {True, False}}
    \cup {[NoOptions EXCEPT !.inline_styles = v] : v \in {True, False}}

\* what a constructor leaves: the object made before is dropped
ContentReturned(r, made) ==
    /\ heap' = r.h
    /\ result' = [container |-> r.container, footer |-> r.footer, exc |-> r.exc,
                  opened |-> r.opened]
    /\ call' = made
    /\ UNCHANGED <<orig, root, pre, _global_config, parser_vars, context_vars>>

ScriptInit(text, src, inline, defer, attrib) ==
    ContentReturned(Script(<<>>, _global_config, text, src, inline, defer, attrib),
                    [op |-> "Script", text |-> text, src |-> src,
                     inline |-> inline, defer |-> defer, attrib |-> attrib])

StyleInit(text, src, inline, attrib) ==
    ContentReturned(Style(<<>>, _global_config, text, src, inline, attrib),
                    [op |-> "Style", text |-> text, src |-> src,
                     inline |-> inline, defer |-> False, attrib |-> attrib])

NextContent ==
    \/ \E kw \in InlineArgs : ConfigSet(kw)
    \/ \E text \in Texts, src \in Links, inline \in {None, True, False},
          defer \in {True, False}, attrib \in ScriptAttribs :
           ScriptInit(text, src, inline, defer, attrib)
    \/ \E text \in Texts, src \in Links, inline \in {None, True, False},
          attrib \in StyleAttribs :
           StyleInit(text, src, inline, attrib)

SpecContent == InitConfig /\ [][NextContent]_vars

(***************************************************************************)
(* Obj: the content made of an object.  A value an object's _repr_ method  *)
(* returns is None, a str, a bytes, a dict from MIME types to str or bytes *)
(* or a tuple (data, metadata); an object is the kind of thing it is and,  *)
(* for each _repr_ method, whether it has the attribute, whether the       *)
(* attribute is callable and what the call returns.                        *)
(***************************************************************************)
PyNone == [type |-> "NoneType", v |-> <<>>, items |-> <<>>]
PyStr(s) == [type |-> "str", v |-> s, items |-> <<>>]
PyBytes(s) == [type |-> "bytes", v |-> s, items |-> <<>>]
PyDict(items) == [type |-> "dict", v |-> <<>>, items |-> items]
\* a tuple holds its items under their indices
PyTuple(first, second) ==
    [type |-> "tuple", v |-> <<>>, items |-> << <<"0", first>>, <<"1", second>> >>]

\* bool(data[k]) for a str or a bytes
NonEmpty(value) == value.v # <<>>

\* data[k]
dict_get(data, k) ==
    data.items[CHOOSE i \in 1..Len(data.items) : data.items[i][1] = k][2]

\* _call_repr that takes None for data
_call_repr_none_kept(obj, repr_name, mime_type) ==
    IF obj.reprs[repr_name].has /\ obj.reprs[repr_name].callable
    THEN IF obj.reprs[repr_name].returns.type = "dict"
         THEN obj.reprs[repr_name].returns
         ELSE PyDict(<< <<mime_type, obj.reprs[repr_name].returns>> >>)
    ELSE PyDict(<<>>)

\* data[0] if isinstance(data, tuple), and then {} for None, {mime_type:
\* data} for what is not a dict
repr_data(data, mime_type) ==
    IF data = PyNone THEN PyDict(<<>>)
    ELSE IF data.type # "dict" THEN PyDict(<< <<mime_type, data>> >>)
    ELSE data

\* _call_repr(obj, repr_name, mime_type)
_call_repr(obj, repr_name, mime_type) ==
    IF obj.reprs[repr_name].has /\ obj.reprs[repr_name].callable
    THEN repr_data(IF obj.reprs[repr_name].returns.type = "tuple"
                   THEN obj.reprs[repr_name].returns.items[1][2]
                   ELSE obj.reprs[repr_name].returns,
                   mime_type)
    ELSE PyDict(<<>>)

\* data.decode() if isinstance(data, bytes) else data
_decode(data) == IF data.type = "bytes" THEN PyStr(data.v) ELSE data

\* the methods _get_repr calls after _repr_mimebundle_, with the MIME type
\* of what each returns
ReprMethods ==
    << <<"_repr_javascript_", "application/javascript">>,
       <<"_repr_html_", "text/html">>,
       <<"_repr_markdown_", "text/markdown">>,
       <<"_repr_svg_", "image/svg+xml">>,
       <<"_repr_png_", "image/png">>,
       <<"_repr_jpeg_", "image/jpeg">> >>

RECURSIVE repr_chain(_, _, _)
\* if data == {}: data = _call_repr(obj, ...), for the i-th method on
repr_chain(obj, data, i) ==
    IF i > Len(ReprMethods) THEN data
    ELSE repr_chain(obj,
                    IF data = PyDict(<<>>)
                    THEN _call_repr(obj, ReprMethods[i][1], ReprMethods[i][2])
                    ELSE data,
                    i + 1)

\* k in data and data[k]
Holds(data, k) == HasKey(data.items, k) /\ NonEmpty(dict_get(data, k))

\* the content class called, with its argument and the format of an image
Content(class, data, format) == [content |-> class, data |-> data, format |-> format]

\* str(obj)
str(obj) == PyStr(<<"o">>)

\* the returns of _get_repr, for data what the methods gave
repr_content(obj, data) ==
    IF Holds(data, "application/javascript")
    THEN Content("Script", _decode(dict_get(data, "application/javascript")), "")
    ELSE IF Holds(data, "text/html")
    THEN Content("HTML", _decode(dict_get(data, "text/html")), "")
    ELSE IF Holds(data, "text/markdown")
    THEN Content("Markdown", _decode(dict_get(data, "text/markdown")), "")
    ELSE IF Holds(data, "image/svg+xml")
    THEN Content("Image", dict_get(data, "image/svg+xml"), "svg+xml")
    ELSE IF Holds(data, "image/png")
    THEN Content("Image", dict_get(data, "image/png"), "png")
    ELSE IF Holds(data, "image/jpeg")
    THEN Content("Image", dict_get(data, "image/jpeg"), "jpeg")
    ELSE IF Holds(data, "image/gif")
    THEN Content("Image", dict_get(data, "image/gif"), "gif")
    ELSE IF Holds(data, "text/plain")
    THEN Content("Text", dict_get(data, "text/plain"), "")
    ELSE Content("Text", str(obj), "")

\* _get_repr(obj)
_get_repr(obj) ==
    repr_content(obj, repr_chain(obj, _call_repr(obj, "_repr_mimebundle_", "text/plain"), 1))

\* the container Obj appends for obj
Obj(obj) ==
    IF obj.kind = "ContentBase" THEN Content("container", PyNone, "")
    ELSE IF obj.kind = "plt" THEN Content("Plot", PyNone, "")
    ELSE _get_repr(obj)

\* the names of the _repr_ methods
ReprNames == {"_repr_mimebundle_"} \cup {ReprMethods[i][1] : i \in 1..Len(ReprMethods)}

X == <<"x">>

\* what a _repr_ method returns
Returns ==
    {PyNone, PyDict(<<>>), PyStr(X), PyStr(<<>>), PyBytes(X),
     PyTuple(PyStr(X), PyStr(<<"m">>)), PyTuple(PyNone, PyNone),
     PyTuple(PyDict(<<>>), PyDict(<<>>)),
     PyDict(<< <<"text/html", PyStr(X)>> >>),
     PyDict(<< <<"text/html", PyStr(<<>>)>>, <<"image/png", PyBytes(X)>> >>),
     PyDict(<< <<"text/plain", PyStr(X)>>, <<"text/markdown", PyStr(X)>> >>),
     PyDict(<< <<"image/gif", PyBytes(X)>> >>),
     PyDict(<< <<"application/json", PyStr(X)>> >>)}

NoAttribute == [has |-> FALSE, callable |-> FALSE, returns |-> PyNone]
Attributes ==
    {[has |-> TRUE, callable |-> FALSE, returns |-> PyNone]}
    \cup {[has |-> TRUE, callable |-> TRUE, returns |-> r] : r \in Returns}

\* how many _repr_ attributes an object has at most
MaxReprs == 2

RECURSIVE ObjectsWith(_)
\* the objects that have up to n of the _repr_ attributes
ObjectsWith(n) ==
    IF n = 0 THEN {[kind |-> "object", reprs |-> [m \in ReprNames |-> NoAttribute]]}
    ELSE {[o EXCEPT !.reprs[a] = x] :
             o \in ObjectsWith(n - 1), a \in ReprNames,
             x \in Attributes \cup {NoAttribute}}

\* rico content, a matplotlib plot, and the objects that have up to
\* MaxReprs of the _repr_ attributes
Objects ==
    {[kind |-> k, reprs |-> [n \in ReprNames |-> NoAttribute]] :
        k \in {"ContentBase", "plt"}}
    \cup ObjectsWith(MaxReprs)

\* a caller has an object
InitObj ==
    /\ heap = <<>>
    /\ orig = <<>>
    /\ root = 0
    /\ _global_config = DefaultConfig
    /\ call \in {[op |-> "object", obj |-> o] : o \in Objects}
    /\ pre = <<>>
    /\ result = NoResult
    /\ ParserIdle
    /\ ContextIdle

\* Obj(obj)
ObjInit ==
    /\ call.op = "object"
    /\ call' = [op |-> "Obj", obj |-> call.obj]
    /\ result' = Obj(call.obj)
    /\ UNCHANGED <<heap, orig, root, _global_config, pre, parser_vars, context_vars>>

NextObj == ObjInit

SpecObj == InitObj /\ [][NextObj]_vars

(***************************************************************************)
(* Claims about the pipeline                                               *)
(***************************************************************************)
\* every value the three options of the global configuration take in the model
Configs ==
    [indent_html : {True, False}, indent_space : {<<SP>>, <<SP, SP>>},
     strip_html : {True, False}]

\* C1: when serialize_html is called with indent, space and strip all given,
\* the string it returns is the one it returns under every other global
\* configuration
C1_ExplicitOptionsGovern ==
    (call.op = "serialize" /\ call.indent # None /\ call.space # None
     /\ call.strip # None)
    => \A config \in Configs :
           serialize_html(pre, config, call.e, call.indent, call.space,
                          call.strip).s = result.s

\* C2: serialize_html called with no option under a configuration returns
\* the string that the call with that configuration's values as explicit
\* options returns under the default configuration
C2_ConfigResolvedOnce ==
    (call.op = "serialize" /\ call.indent = None /\ call.space = None
     /\ call.strip = None)
    => result.s =
           serialize_html(pre, DefaultConfig, call.e, _global_config.indent_html,
                          _global_config.indent_space,
                          _global_config.strip_html).s

\* C3: the string serialize_html returns for an element whose lowercased tag
\* is in TAGS_EMPTY is <tag attrs/> followed by the element's tail and
\* nothing else: no text, no children, no closing tag
C3_VoidElementOnlyTag ==
    (call.op = "serialize" /\ Lower(pre[call.e].tag) \in TAGS_EMPTY)
    => result.s =
           <<"<", pre[call.e].tag>> \o serialize_attrib(pre[call.e].attrib)
           \o <<"/", ">">>
           \o (IF pre[call.e].tail = None THEN <<>>
               ELSE _escape_cdata(pre[call.e].tail))

\* C10: whatever calls of indent_html, strip_html and serialize_html were
\* made, under whatever configuration, every element of the tree the caller
\* built has the tag, attributes, text, tail and children it was built with
C10_InputTreeUnchanged ==
    /\ Len(heap) >= Len(orig)
    /\ \A e \in 1..Len(orig) : heap[e] = orig[e]

\* a call was made on a tree that an earlier call returned and that shares
\* a child with the tree built, and it returned a tree that shares it too
C10_Witness ==
    /\ call.op \in {"strip", "indent"}
    /\ call.e # root
    /\ result.chain = 2
    /\ \E e \in 1..Len(orig) :
           /\ e \in Range(heap[call.e].children)
           /\ e \in Range(heap[result.e].children)
           /\ heap[e].text # None
    /\ C10_InputTreeUnchanged

(***************************************************************************)
(* Claims about escaping                                                   *)
(***************************************************************************)
\* what a character of a text or of a tail is to become
TextChar(c) ==
    CASE c = "&" -> <<"&", "a", "m", "p", ";">>
      [] c = "<" -> <<"&", "l", "t", ";">>
      [] c = ">" -> <<"&", "g", "t", ";">>
      [] OTHER -> <<c>>

RECURSIVE TextChars(_)
\* a text or a tail with every character replaced by what it is to become
TextChars(s) ==
    IF s = <<>> THEN <<>> ELSE TextChar(Head(s)) \o TextChars(Tail(s))

\* what a character of an attribute value is to become
ValueChar(c) ==
    CASE c = "&" -> <<"&", "a", "m", "p", ";">>
      [] c = ">" -> <<"&", "g", "t", ";">>
      [] c = QUOT -> <<"&", "q", "u", "o", "t", ";">>
      [] OTHER -> <<c>>

RECURSIVE ValueChars(_)
\* an attribute value with every character replaced by what it is to become
ValueChars(s) ==
    IF s = <<>> THEN <<>> ELSE ValueChar(Head(s)) \o ValueChars(Tail(s))

\* how many times c occurs in s
Count(s, c) == Cardinality({i \in 1..Len(s) : s[i] = c})

\* the element serialize_html was called on
Called == pre[call.e]

\* serialize_html was called on an element that has no attribute and no child
\* and is not void
TextCall ==
    /\ call.op = "serialize"
    /\ Called.attrib = <<>>
    /\ Called.children = <<>>
    /\ Lower(Called.tag) \notin TAGS_EMPTY

\* C6: the string returned holds the text with each of its &, < and >
\* replaced by its entity, each once, unless the lowercased tag is script or
\* style, whose text it holds as it is; it holds the tail with each &, <
\* and > replaced whatever the tag is; a double quote stays as it is
C6_TextAndTailEscaped ==
    TextCall
    => result.s =
           <<"<", Called.tag, ">">>
           \o (IF Called.text = None THEN <<>>
               ELSE IF Lower(Called.tag) \in {"script", "style"} THEN Called.text
               ELSE TextChars(Called.text))
           \o <<"<", "/", Called.tag, ">">>
           \o (IF Called.tail = None THEN <<>>
               ELSE TextChars(Called.tail))

\* a script element whose text holds & and < and whose tail holds > was
\* serialized: the text is returned as it is and the tail escaped
C6_Witness ==
    /\ TextCall
    /\ Called.tag = "SCRIPT"
    /\ Called.text = <<"&", "<">>
    /\ Called.tail = <<">">>
    /\ result.s = <<"<", "SCRIPT", ">", "&", "<", "<", "/", "SCRIPT", ">",
                    "&", "g", "t", ";">>

\* serialize_html was called on an element that has attributes, each with a
\* str for value, and no text, tail or child
StrAttribCall ==
    /\ call.op = "serialize"
    /\ Called.attrib # <<>>
    /\ \A i \in 1..Len(Called.attrib) :
           Called.attrib[i][2] # None /\ ~IsBool(Called.attrib[i][2])
    /\ Called.text = None /\ Called.tail = None /\ Called.children = <<>>

RECURSIVE QuotedItems(_)
\* name="value" for each item, the value with its characters replaced
QuotedItems(items) ==
    IF items = <<>> THEN <<>>
    ELSE <<SP, Head(items)[1], "=", QUOT>> \o ValueChars(Head(items)[2])
         \o <<QUOT>> \o QuotedItems(Tail(items))

\* C7: each attribute whose value is a str is returned as name="value" with
\* each &, > and double quote of the value replaced by its entity and each <
\* left as it is, so the only double quotes of the string returned are the
\* two that enclose each value
C7_AttributeValuesEscaped ==
    StrAttribCall
    => /\ result.s = <<"<", Called.tag>> \o QuotedItems(Called.attrib)
                     \o <<">", "<", "/", Called.tag, ">">>
       /\ Count(result.s, QUOT) = 2 * Len(Called.attrib)

\* an element with an attribute whose value holds a double quote and a <,
\* and a second attribute whose value is a double quote, was serialized
C7_Witness ==
    /\ StrAttribCall
    /\ Called.attrib = << <<"id", <<QUOT, "<">> >>, <<"class", <<QUOT>> >> >>
    /\ result.s = <<"<", "p", SP, "id", "=", QUOT, "&", "q", "u", "o", "t", ";",
                    "<", QUOT, SP, "class", "=", QUOT, "&", "q", "u", "o", "t",
                    ";", QUOT, ">", "<", "/", "p", ">">>

\* serialize_html was called on an element that has no text, tail or child
AttribCall ==
    /\ call.op = "serialize"
    /\ Called.text = None /\ Called.tail = None /\ Called.children = <<>>
    /\ Lower(Called.tag) \notin TAGS_EMPTY

\* what an attribute is to be returned as
Form(k, v) ==
    CASE v \in {None, True} -> <<SP, k>>
      [] v = False -> <<>>
      [] OTHER -> <<SP, k, "=", QUOT>> \o _escape_attrib_html(v) \o <<QUOT>>

RECURSIVE Forms(_)
\* the attributes in the order of the mapping
Forms(items) ==
    IF items = <<>> THEN <<>>
    ELSE Form(Head(items)[1], Head(items)[2]) \o Forms(Tail(items))

\* C8: an attribute whose value is None or True is returned as its name, one
\* whose value is False is left out, and one whose value is a str, the empty
\* one too, as name="escaped value"; they come in the order of the mapping
C8_AttributeForms ==
    AttribCall
    => result.s = <<"<", Called.tag>> \o Forms(Called.attrib)
                  \o <<">", "<", "/", Called.tag, ">">>

\* an element whose first attribute is False and whose second is the empty
\* string was serialized
C8_Witness ==
    /\ AttribCall
    /\ Called.attrib = << <<"id", False>>, <<"class", <<>> >> >>
    /\ result.s = <<"<", "p", SP, "class", "=", QUOT, QUOT, ">", "<", "/", "p", ">">>

(***************************************************************************)
(* Claims about parse_html                                                 *)
(***************************************************************************)
\* C4: parse_html raises nothing, whatever start tags, end tags and text it
\* is given, and an end tag that closes no element never takes the synthetic
\* root off the open elements
C4_ParseNeverRaises ==
    /\ pstate \notin {"IndexError", "ParseError"}
    /\ pstate = "feeding" => _builder.stack # <<>>

\* the string parse_html was given
RECURSIVE RawAll(_)
RawAll(lexs) == IF lexs = <<>> THEN <<>> ELSE Raw(Head(lexs)) \o RawAll(Tail(lexs))

RECURSIVE SerializeAll(_, _)
\* the strings serialize_html returns for the elements es, one after another
SerializeAll(elems, es) ==
    IF es = <<>> THEN <<>>
    ELSE serialize_html(elems, _global_config, Head(es), None, None, None).s
         \o SerializeAll(elems, Tail(es))

\* s holds, from i on, one of the references of E
ReferenceAt(s, i, E) ==
    \E e \in E : i + Len(e) - 1 <= Len(s) /\ SubSeq(s, i, i + Len(e) - 1) = e

\* a text as serialize_html writes it: no < and no >, and no & but the first
\* character of &amp; &lt; or &gt;
CanonicalText(s) ==
    \A i \in 1..Len(s) :
        /\ s[i] \notin {"<", ">"}
        /\ s[i] = "&" => ReferenceAt(s, i, {AMP_ENTITY, LT_ENTITY, GT_ENTITY})

\* an attribute value as serialize_html writes it: no double quote and no >,
\* and no & but the first character of &amp; &gt; or &quot;
CanonicalValue(s) ==
    \A i \in 1..Len(s) :
        /\ s[i] \notin {QUOT, ">"}
        /\ s[i] = "&" => ReferenceAt(s, i, {AMP_ENTITY, GT_ENTITY, QUOT_ENTITY})

\* the attributes of a start tag have names of their own and values that are
\* absent or canonical
CanonicalAttrs(attrs) ==
    /\ \A i, j \in 1..Len(attrs) : attrs[i][1] = attrs[j][1] => i = j
    /\ \A i \in 1..Len(attrs) : attrs[i][2] = None \/ CanonicalValue(attrs[i][2])

\* the element open innermost is a script or a style
InCdata(open) ==
    open # <<>> /\ Lower(open[Len(open)]) \in CDATA_CONTENT_ELEMENTS

RECURSIVE WellNested(_, _, _)
\* the lexemes from the i-th on are a well-nested fragment of non-void,
\* non-pre elements and canonical text, `open` being the tags of the
\* elements open before the i-th lexeme; the fragment starts with an element
WellNested(lexs, i, open) ==
    IF i > Len(lexs) THEN open = <<>>
    ELSE CASE lexs[i].kind = "start" ->
                  /\ Lower(lexs[i].tag) \notin TAGS_EMPTY \cup TAGS_PREFORMATTED
                  /\ ~InCdata(open)
                  /\ CanonicalAttrs(lexs[i].attrs)
                  /\ WellNested(lexs, i + 1, Append(open, lexs[i].tag))
           [] lexs[i].kind = "end" ->
                  /\ open # <<>>
                  /\ open[Len(open)] = lexs[i].tag
                  /\ WellNested(lexs, i + 1, SubSeq(open, 1, Len(open) - 1))
           [] lexs[i].kind = "data" ->
                  /\ i > 1
                  /\ InCdata(open) \/ CanonicalText(lexs[i].text)
                  /\ WellNested(lexs, i + 1, open)
           [] OTHER -> FALSE

\* every tag name and every attribute name is in lower case
LowerCase(lexs) ==
    \A i \in 1..Len(lexs) :
        /\ lexs[i].tag = Lower(lexs[i].tag)
        /\ \A j \in 1..Len(lexs[i].attrs) :
               lexs[i].attrs[j][1] = Lower(lexs[i].attrs[j][1])

\* parse_html returned the forest of a well-nested fragment
ParsedWellNested == pstate = "closed" /\ input # <<>> /\ WellNested(input, 1, <<>>)

ElementOf(i) ==
    1 + Cardinality({j \in 1..i : input[j].kind \in {"start", "startend"}})

\* the element e is a child of
Parent(e) ==
    CHOOSE p \in 1..Len(_builder.elems) : e \in Range(_builder.elems[p].children)

\* the i-th lexeme is the start tag of a void element and another lexeme
\* follows it
VoidStart(i) ==
    /\ i < Len(input)
    /\ input[i].kind = "start"
    /\ Lower(input[i].tag) \in TAGS_EMPTY
    /\ \A j \in 1..Len(input) : Lower(input[j].tag) \notin CDATA_CONTENT_ELEMENTS

\* C9: in the forest parse_html returns an element whose tag is in
\* TAGS_EMPTY has no children and no text; the text that follows the start
\* tag of a void element is in the void element's tail, and the element a
\* start tag that follows it creates is a child of the void element's
\* parent; the end tag of another element that follows it closes the void
\* element's parent, whose tail the text after that end tag is in
C9_VoidElementsEmpty ==
    pstate = "closed"
    => /\ \A e \in 1..Len(_builder.elems) :
              Lower(_builder.elems[e].tag) \in TAGS_EMPTY
              => /\ _builder.elems[e].children = <<>>
                 /\ _builder.elems[e].text = None
       /\ \A i \in 1..Len(input) :
              VoidStart(i)
              => /\ input[i + 1].kind = "data"
                    => StartsWith(_builder.elems[ElementOf(i)].tail,
                                  unescape(input[i + 1].text))
                 /\ input[i + 1].kind \in {"start", "startend"}
                    => Parent(ElementOf(i + 1)) = Parent(ElementOf(i))
                 /\ (/\ input[i + 1].kind = "end"
                     /\ Lower(input[i + 1].tag) # Lower(input[i].tag)
                     /\ i + 2 <= Len(input)
                     /\ input[i + 2].kind = "data")
                    => StartsWith(_builder.elems[Parent(ElementOf(i))].tail,
                                  unescape(input[i + 2].text))

\* <p><br>a</p> was parsed: a is the tail of br, and p, the only element of
\* the forest, has br for only child
C9_Witness ==
    /\ pstate = "closed"
    /\ input = <<StartTag("p", <<>>), StartTag("br", <<>>), Data(<<"a">>), EndTag("p")>>
    /\ Forest = <<2>>
    /\ _builder.elems[2].children = <<3>>
    /\ _builder.elems[3].tag = "br"
    /\ _builder.elems[3].text = None
    /\ _builder.elems[3].tail = <<"a">>
    /\ _builder.elems[2].tail = None

(***************************************************************************)
(* Claims about strip_html and indent_html                                 *)
(***************************************************************************)
RECURSIVE SameTree(_, _, _, _)
\* the tree of e1 in h1 and the tree of e2 in h2 have the same tags,
\* attributes, texts, tails and children
SameTree(h1, e1, h2, e2) ==
    /\ h1[e1].tag = h2[e2].tag
    /\ h1[e1].attrib = h2[e2].attrib
    /\ h1[e1].text = h2[e2].text
    /\ h1[e1].tail = h2[e2].tail
    /\ Len(h1[e1].children) = Len(h2[e2].children)
    /\ \A i \in 1..Len(h1[e1].children) :
           SameTree(h1, h1[e1].children[i], h2, h2[e2].children[i])

\* the lowercased tag is pre or an inline tag
Exempt(tag) == Lower(tag) \in TAGS_PREFORMATTED \cup TAGS_INLINE

RECURSIVE ExemptKept(_, _, _, _)
\* e2 in h2 has as many children as e1 in h1, and every element of the tree
\* of e1 whose tag is exempt and that is not below an exempt element has, in
\* the tree of e2, the same text and the same descendants
ExemptKept(h1, e1, h2, e2) ==
    /\ Len(h1[e1].children) = Len(h2[e2].children)
    /\ IF Exempt(h1[e1].tag)
       THEN /\ h2[e2].text = h1[e1].text
            /\ \A i \in 1..Len(h1[e1].children) :
                   SameTree(h1, h1[e1].children[i], h2, h2[e2].children[i])
       ELSE \A i \in 1..Len(h1[e1].children) :
                ExemptKept(h1, h1[e1].children[i], h2, h2[e2].children[i])

\* C11: in the tree indent_html or strip_html returns, every element whose
\* lowercased tag is pre or an inline tag has the text and the descendants
\* it has in the tree the function was given, at whatever depth it is; and
\* when the element the function was given is such an element, the tree
\* returned is structurally equal to it
C11_ExemptSubtreesKept ==
    call.op \in {"strip", "indent"}
    => /\ ExemptKept(pre, call.e, heap, result.e)
       /\ Exempt(pre[call.e].tag) => SameTree(pre, call.e, heap, result.e)

\* indent_html was called on a block-level element whose child is a pre or
\* an inline element with blank text and with a child of its own
C11_Witness ==
    /\ call.op = "indent"
    /\ ~Exempt(pre[call.e].tag)
    /\ \E c \in Range(pre[call.e].children) :
           /\ Exempt(pre[c].tag)
           /\ pre[c].text = <<SP>>
           /\ pre[c].children # <<>>
    /\ C11_ExemptSubtreesKept

\* the opening tag of an element that is not a void element
OpeningTag(el) == <<"<", el.tag>> \o serialize_attrib(el.attrib) \o <<">">>

\* a block-level element with children whose text is blank once stripped
IndentedInside(el) ==
    /\ ~Exempt(el.tag)
    /\ el.children # <<>>
    /\ ~Truthy(el.text) \/ ~Truthy(str_lstrip(el.text))

\* C12: under the default configuration, the string that
\* serialize_html(e, indent=True, space=s, strip=True) returns is the string
\* that serialize_html(indent_html(strip_html(e), s), indent=False,
\* strip=False) returns, and it holds the indentation: when e is a
\* block-level element with children and a blank text, a newline and s
\* follow its opening tag
C12_StripBeforeIndent ==
    call.op = "compose"
    => /\ call.direct = result.s
       /\ IndentedInside(orig[root])
          => StartsWith(call.direct,
                        OpeningTag(orig[root]) \o <<NL>> \o call.space)

\* both strings were made for a block-level root with a blank text and
\* children, one of which has a blank tail
C12_Witness ==
    /\ call.op = "compose"
    /\ _global_config = DefaultConfig
    /\ IndentedInside(orig[root])
    /\ \E c \in Range(orig[root].children) : orig[c].tail = <<SP>>
    /\ call.direct = result.s
    /\ StartsWith(result.s, OpeningTag(orig[root]) \o <<NL>> \o call.space)

\* C13: the tree strip_html returns for the tree strip_html returned is
\* structurally equal to it: same tags, attributes, texts, tails, children
C13_StripIdempotent ==
    (call.op = "strip" /\ call.e # root)
    => SameTree(pre, call.e, heap, result.e)

\* strip_html was called on the tree it returned for a tree in which it
\* stripped the text of the root and the text of a child
C13_Witness ==
    /\ call.op = "strip"
    /\ call.e # root
    /\ pre[call.e].text # orig[root].text
    /\ \E i \in 1..Len(orig[root].children) :
           pre[pre[call.e].children[i]].text # orig[orig[root].children[i]].text
    /\ SameTree(pre, call.e, heap, result.e)

(***************************************************************************)
(* Claims about the attributes parse_html stores                           *)
(***************************************************************************)
\* the i-th lexeme is a start tag that made an element: no script and no
\* style was read before it
MadeElement(i) ==
    /\ input[i].kind \in {"start", "startend"}
    /\ \A j \in 1..(i - 1) : Lower(input[j].tag) \notin CDATA_CONTENT_ELEMENTS

\* the attribute at position a of the start tag attrs is the only one of
\* its name
OnlyOfName(attrs, a) ==
    \A b \in 1..Len(attrs) : Lower(attrs[b][1]) = Lower(attrs[a][1]) => b = a

\* the value stored for the name k in the items of an attrib
ValueOf(items, k) == items[CHOOSE j \in 1..Len(items) : items[j][1] = k][2]

\* the attributes of the start tag that serialize_html writes for the items
\* of an attrib that holds strings and None: the bare name for None, the
\* escaped value between quotes for a string
Written(items) ==
    [j \in 1..Len(items) |->
        <<items[j][1],
          IF items[j][2] = None THEN None ELSE _escape_attrib_html(items[j][2])>>]

\* C14: an attribute written without a value in a start tag is stored as
\* None, and one written with an empty quoted value as the empty string;
\* serialize_html writes the first as the bare name and the second as
\* name=""; and the start tag serialize_html writes for the element is parsed
\* into the attributes the element has, None for the bare name again
C14_ValuelessAttribute ==
    pstate \in {"feeding", "closed"}
    => \A i \in 1..Len(input) :
           MadeElement(i)
           => /\ \A a \in 1..Len(input[i].attrs) :
                     OnlyOfName(input[i].attrs, a)
                     => /\ input[i].attrs[a][2] = None
                           => /\ ValueOf(_builder.elems[ElementOf(i)].attrib,
                                         Lower(input[i].attrs[a][1])) = None
                              /\ serialize_item(Lower(input[i].attrs[a][1]),
                                     ValueOf(_builder.elems[ElementOf(i)].attrib,
                                             Lower(input[i].attrs[a][1])))
                                 = <<SP, Lower(input[i].attrs[a][1])>>
                        /\ input[i].attrs[a][2] = <<>>
                           => /\ ValueOf(_builder.elems[ElementOf(i)].attrib,
                                         Lower(input[i].attrs[a][1])) = <<>>
                              /\ serialize_item(Lower(input[i].attrs[a][1]),
                                     ValueOf(_builder.elems[ElementOf(i)].attrib,
                                             Lower(input[i].attrs[a][1])))
                                 = <<SP, Lower(input[i].attrs[a][1]), "=", QUOT, QUOT>>
              /\ serialize_attrib(_builder.elems[ElementOf(i)].attrib)
                 = RawAttrs(Written(_builder.elems[ElementOf(i)].attrib))
              /\ dict(parsed_attrs(Written(_builder.elems[ElementOf(i)].attrib)))
                 = _builder.elems[ElementOf(i)].attrib

\* <p id="&amp;&gt;&quot;<" hidden class=""> was parsed into an element that
\* holds None for hidden and the empty string for class
C14_Witness ==
    /\ pstate = "closed"
    /\ \E i \in 1..Len(input) :
           /\ MadeElement(i)
           /\ \E a \in 1..Len(input[i].attrs) :
                  input[i].attrs[a] = <<"hidden", None>>
           /\ ValueOf(_builder.elems[ElementOf(i)].attrib, "hidden") = None
           /\ ValueOf(_builder.elems[ElementOf(i)].attrib, "class") = <<>>
           /\ ElementOf(i) \in Range(_builder.elems[1].children)
    /\ C14_ValuelessAttribute

(***************************************************************************)
(* Claims about the configuration                                          *)
(***************************************************************************)
\* C15: when a config_context block is left, normally or by an exception,
\* every option of the global configuration has the value it had when the
\* block was entered
C15_ContextRestores ==
    call.op \in {"exit", "exit_raised"} => _global_config = call.arg

\* C16: get_config() returns the items of the global configuration in a
\* dictionary of its own: an assignment to an item of the dictionary leaves
\* the global configuration as it was, and set_config, called by the caller
\* or by config_context, leaves the dictionary as it was; get_config(option)
\* returns the value the global configuration holds for the option
C16_GetConfigSnapshot ==
    /\ call.op = "get_config"
       => /\ result.value = held
          /\ Items(held, _global_config) = _global_config
          /\ _global_config = call.before
    /\ call.op = "setitem" => _global_config = call.before
    /\ (call.op \in {"set_config", "enter", "exit", "exit_raised"} /\ held # NoDict)
       => Items(held, _global_config) = call.held_before
    /\ call.op = "get_option"
       => /\ result.value = _global_config[call.arg[1]]
          /\ _global_config = call.before

\* set_config changed an option of the global configuration after the
\* caller had changed that item of the dictionary get_config() returned
C16_Witness ==
    /\ call.op = "set_config"
    /\ held.obj = "copy"
    /\ _global_config.indent_html # call.before.indent_html
    /\ held.items.indent_html = call.before.indent_html
    /\ held.items.markdown_renderer # _global_config.markdown_renderer
    /\ C16_GetConfigSnapshot

(***************************************************************************)
(* Claims about Script and Style                                           *)
(***************************************************************************)
\* the constructor was given a link and no text, and inline was left None
LinkOnly(class) ==
    /\ call.op = class
    /\ call.src # None
    /\ call.text = None
    /\ call.inline = None

\* the constructor opened the link and made an element of the tag that
\* holds the text of the link
Inlined(tag) ==
    /\ result.exc = ""
    /\ result.opened = <<call.src>>
    /\ heap[result.container].tag = tag
    /\ heap[result.container].text = urlopen_read(call.src)

\* the constructor opened no link and made an element that refers to it
Linked(tag, name) ==
    /\ result.exc = ""
    /\ result.opened = <<>>
    /\ heap[result.container].tag = tag
    /\ heap[result.container].text = None
    /\ <<name, call.src>> \in Range(heap[result.container].attrib)

\* C17: Style constructed with a src and inline left None inlines the
\* stylesheet when the option inline_styles is true and links it when it is
\* false, whatever inline_scripts is; Script does so by the option
\* inline_scripts, whatever inline_styles is
C17_InlineOptionOfItsClass ==
    /\ LinkOnly("Style")
       => IF Truthy(_global_config.inline_styles) THEN Inlined("style")
          ELSE Linked("link", "href")
    /\ LinkOnly("Script")
       => IF Truthy(_global_config.inline_scripts) THEN Inlined("script")
          ELSE Linked("script", "src")

\* the constructor was given both text and src, or neither
BadArguments ==
    /\ call.op \in {"Script", "Style"}
    /\ (call.text # None /\ call.src # None) \/ (call.text = None /\ call.src = None)

\* C18: Script and Style given both text and src, or neither, raise
\* ValueError whatever inline and the configuration are: no link is opened
\* and no element is created; given one of the two, they raise nothing
C18_TextXorSrc ==
    call.op \in {"Script", "Style"}
    => IF BadArguments
       THEN /\ result.exc = "ValueError"
            /\ result.opened = <<>>
            /\ result.container = 0
            /\ heap = <<>>
       ELSE /\ result.exc = ""
            /\ result.container = 1
            /\ Len(heap) = 1

\* Script(text, src, inline=True) was called while the option
\* inline_scripts was true too, and it raised ValueError
C18_Witness ==
    /\ call.op = "Script"
    /\ call.text # None
    /\ call.src # None
    /\ call.inline = True
    /\ _global_config.inline_scripts = True
    /\ result.exc = "ValueError"
    /\ result.opened = <<>>
    /\ heap = <<>>

(***************************************************************************)
(* Claims about the texts and tails indent_html sets                       *)
(***************************************************************************)
\* indent_html was called on an element that has no children
LeafIndented ==
    /\ call.op = "indent"
    /\ pre[call.e].children = <<>>

RECURSIVE NonBlank(_)
\* the characters of s that are not whitespace
NonBlank(s) ==
    IF s = <<>> THEN <<>>
    ELSE (IF IsSpace(Head(s)) THEN <<>> ELSE <<Head(s)>>) \o NonBlank(Tail(s))

\* s ends with p
EndsWith(s, p) ==
    Len(s) >= Len(p) /\ SubSeq(s, Len(s) - Len(p) + 1, Len(s)) = p

ChildTail(i, n, space, level) ==
    <<NL>> \o Repeat(space, IF i = n THEN level ELSE level + 1)

RECURSIVE TailsForced(_, _, _, _, _, _)
\* every child of e1, a block-level element at the level, has in the tree
\* of e2 the tail of its place, and so below every block-level child
TailsForced(h1, e1, h2, e2, space, level) ==
    Exempt(h1[e1].tag)
    \/ /\ Len(h2[e2].children) = Len(h1[e1].children)
       /\ \A i \in 1..Len(h1[e1].children) :
              /\ h2[h2[e2].children[i]].tail
                 = ChildTail(i, Len(h1[e1].children), space, level)
              /\ TailsForced(h1, h1[e1].children[i], h2, h2[e2].children[i],
                             space, level + 1)

RECURSIVE TailsIndented(_, _, _, _, _, _)
\* the same for the children whose tail is None or whitespace; a child
\* whose tail holds text has that tail in the tree of e2
TailsIndented(h1, e1, h2, e2, space, level) ==
    Exempt(h1[e1].tag)
    \/ /\ Len(h2[e2].children) = Len(h1[e1].children)
       /\ \A i \in 1..Len(h1[e1].children) :
              /\ h2[h2[e2].children[i]].tail
                 = (IF BlankTail(h1[h1[e1].children[i]].tail)
                    THEN ChildTail(i, Len(h1[e1].children), space, level)
                    ELSE h1[h1[e1].children[i]].tail)
              /\ TailsIndented(h1, h1[e1].children[i], h2, h2[e2].children[i],
                               space, level + 1)

\* C20 as the spec states it: in the tree indent_html returns, every child
\* of a block-level element at level L but the last has the tail newline +
\* space * (L + 1) and the last child has newline + space * L, whatever the
\* tails were
C20_TailsForced ==
    call.op = "indent"
    => TailsForced(pre, call.e, heap, result.e, call.space, 0)

\* C20, amended: it is so for every child whose tail was None or
\* whitespace; a child whose tail holds text other than whitespace keeps
\* its tail as it was
C20_BlankTailsIndented ==
    call.op = "indent"
    => TailsIndented(pre, call.e, heap, result.e, call.space, 0)

\* indent_html was called on a block-level element whose first child is a
\* block-level element with a blank tail and a child, and whose last child
\* has a tail that holds text
C20_Witness ==
    /\ call.op = "indent"
    /\ ~Exempt(pre[call.e].tag)
    /\ Len(pre[call.e].children) = 2
    /\ ~Exempt(pre[pre[call.e].children[1]].tag)
    /\ pre[pre[call.e].children[1]].tail = <<SP>>
    /\ pre[pre[call.e].children[1]].children # <<>>
    /\ pre[pre[call.e].children[2]].tail = PAD_A
    /\ heap[heap[result.e].children[1]].tail = <<NL>> \o call.space
    /\ heap[heap[result.e].children[2]].tail = PAD_A
    /\ C20_BlankTailsIndented

(***************************************************************************)
(* Claims about the layout indent_html makes                               *)
(***************************************************************************)
\* a tail that is None or the empty string
EmptyTail(tail) == tail \in {None, <<>>}

RECURSIVE InlineTailsKept(_, _, _, _)
\* every inline child of e1, a block-level element, whose tail is empty has
\* an empty tail in the tree of e2, and so below every block-level child
InlineTailsKept(h1, e1, h2, e2) ==
    Exempt(h1[e1].tag)
    \/ /\ Len(h2[e2].children) = Len(h1[e1].children)
       /\ \A i \in 1..Len(h1[e1].children) :
              /\ (/\ Lower(h1[h1[e1].children[i]].tag) \in TAGS_INLINE
                  /\ EmptyTail(h1[h1[e1].children[i]].tail))
                 => EmptyTail(h2[h2[e2].children[i]].tail)
              /\ InlineTailsKept(h1, h1[e1].children[i], h2, h2[e2].children[i])

\* C21: indent_html inserts no whitespace around inline content: in the
\* tree it returns, an inline child of a block-level element whose tail was
\* empty has an empty tail
C21_InlineTailsKept ==
    call.op = "indent"
    => InlineTailsKept(pre, call.e, heap, result.e)

RECURSIVE BlockTree(_, _)
\* the tree of e is made of block-level elements that are not void
\* elements; its tails and the texts of its elements with children are
\* None or whitespace, and the texts of its leaves hold no newline unless
\* they are whitespace
BlockTree(h, e) ==
    /\ ~Exempt(h[e].tag)
    /\ Lower(h[e].tag) \notin TAGS_EMPTY \cup TAGS_NOT_ESCAPED
    /\ BlankTail(h[e].tail)
    /\ IF h[e].children = <<>>
       THEN BlankTail(h[e].text) \/ NL \notin Range(h[e].text)
       ELSE BlankTail(h[e].text)
    /\ \A i \in 1..Len(h[e].children) : BlockTree(h, h[e].children[i])

\* the closing tag of an element
ClosingTag(el) == <<"<", "/", el.tag, ">">>

RECURSIVE Layout(_, _, _, _), LayoutChildren(_, _, _, _, _)
\* the element e at depth d, from its opening tag to its closing tag: a leaf
\* on one line; an element with children as its opening tag, a line for
\* each child, and its closing tag after d copies of space
Layout(h, e, space, d) ==
    OpeningTag(h[e])
    \o (IF h[e].children = <<>>
        THEN (IF BlankTail(h[e].text) THEN <<>> ELSE str_lstrip(h[e].text))
        ELSE <<NL>> \o LayoutChildren(h, h[e].children, 1, space, d + 1)
             \o Repeat(space, d))
    \o ClosingTag(h[e])

\* a line for each child from the i-th on: d copies of space, the child,
\* and a newline
LayoutChildren(h, kids, i, space, d) ==
    IF i > Len(kids) THEN <<>>
    ELSE Repeat(space, d) \o Layout(h, kids[i], space, d) \o <<NL>>
         \o LayoutChildren(h, kids, i + 1, space, d)

\* C22: for a tree of block-level elements whose texts and tails are empty
\* or whitespace but for one-line texts in leaves, the string of
\* indent_html(tree, space) has the opening tag of every element at depth d
\* at the start of a line after exactly d copies of space, the closing tag
\* of every element with children on a line of its own after d copies of
\* space, and the closing tag of the root at column 0
C22_BlockLayout ==
    (call.op = "serialize_indented" /\ BlockTree(orig, root))
    => result.s = Layout(orig, root, call.space, 0)
                  \o (IF orig[root].tail = None THEN <<>> ELSE orig[root].tail)

\* the string was made for div > (div > p, p) indented by two blanks: the
\* grandchild is on the third line after four blanks and the closing tag
\* of the root is the last line
C22_Witness ==
    /\ call.op = "serialize_indented"
    /\ call.space = <<SP, SP>>
    /\ BlockTree(orig, root)
    /\ Len(orig) = 4
    /\ orig[2].children = <<4>>
    /\ SplitLines(result.s)[3]
       = <<SP, SP, SP, SP>> \o OpeningTag(orig[4]) \o <<"a">> \o ClosingTag(orig[4])
    /\ Len(SplitLines(result.s)) = 6
    /\ SplitLines(result.s)[6] = ClosingTag(orig[root])
    /\ C22_BlockLayout

(***************************************************************************)
(* Claims about the texts and tails of the tree strip_html returns         *)
(***************************************************************************)
RECURSIVE TextsStripped(_, _, _, _)
\* the text of e2 is the text of e1, a block-level element, without its
\* leading whitespace, and without its trailing whitespace when e1 has no
\* children; None is None; and so for every child of e1
TextsStripped(h1, e1, h2, e2) ==
    Exempt(h1[e1].tag)
    \/ /\ h2[e2].text
          = (IF h1[e1].text = None THEN None
             ELSE IF h1[e1].children = <<>> THEN str_strip(h1[e1].text)
             ELSE str_lstrip(h1[e1].text))
       /\ Len(h2[e2].children) = Len(h1[e1].children)
       /\ \A i \in 1..Len(h1[e1].children) :
              TextsStripped(h1, h1[e1].children[i], h2, h2[e2].children[i])

\* C23: strip_html removes the leading whitespace of the text of every
\* block-level element it reaches, and the trailing whitespace as well when
\* the element has no children; the text of an element with children keeps
\* its trailing whitespace, None stays None and whitespace becomes the
\* empty string; it does so for every descendant that is not inside a pre
\* or an inline element
C23_TextsStripped ==
    call.op = "strip"
    => TextsStripped(pre, call.e, heap, result.e)

\* strip_html was called on a block-level root with children whose text
\* ends with a blank, which it keeps; the first child has a blank text and a
\* child with a padded text, which lost both blanks
C23_Witness ==
    /\ call.op = "strip"
    /\ call.e = root
    /\ ~Exempt(pre[root].tag)
    /\ pre[root].text = PAD_A
    /\ heap[result.e].text = <<"a", SP>>
    /\ Len(pre[root].children) = 2
    /\ ~Exempt(pre[pre[root].children[1]].tag)
    /\ pre[pre[root].children[1]].text = <<SP>>
    /\ heap[heap[result.e].children[1]].text = <<>>
    /\ pre[pre[root].children[1]].children # <<>>
    /\ heap[heap[heap[result.e].children[1]].children[1]].text = <<"a">>
    /\ C23_TextsStripped

RECURSIVE TailsTrimmed(_, _, _, _)
\* the last child of e1, a block-level element, has in the tree of e2 a
\* tail that ends with no whitespace, and a child that has a whitespace
\* tail and stands with the next child between two block-level elements has
\* no tail there; and so for every child of e1
TailsTrimmed(h1, e1, h2, e2) ==
    Exempt(h1[e1].tag)
    \/ /\ Len(h2[e2].children) = Len(h1[e1].children)
       /\ \A i \in 1..Len(h1[e1].children) :
              /\ (i = Len(h1[e1].children) /\ Truthy(h2[h2[e2].children[i]].tail))
                 => ~IsSpace(h2[h2[e2].children[i]].tail[
                                Len(h2[h2[e2].children[i]].tail)])
              /\ (/\ i < Len(h1[e1].children)
                  /\ ~Exempt(h1[h1[e1].children[i]].tag)
                  /\ ~Exempt(h1[h1[e1].children[i + 1]].tag)
                  /\ Truthy(h1[h1[e1].children[i]].tail)
                  /\ BlankTail(h1[h1[e1].children[i]].tail))
                 => EmptyTail(h2[h2[e2].children[i]].tail)
              /\ TailsTrimmed(h1, h1[e1].children[i], h2, h2[e2].children[i])

RECURSIVE TailsKept(_, _, _, _)
\* every element of the tree of e2 has the tail it has in the tree of e1
TailsKept(h1, e1, h2, e2) ==
    /\ h2[e2].tail = h1[e1].tail
    /\ Len(h2[e2].children) = Len(h1[e1].children)
    /\ \A i \in 1..Len(h1[e1].children) :
           TailsKept(h1, h1[e1].children[i], h2, h2[e2].children[i])

\* C24 as the spec states it: in the tree strip_html returns, the tail of
\* the last child of a block-level element ends with no whitespace, and a
\* whitespace tail between two block-level siblings is removed
C24_TailsTrimmed ==
    call.op = "strip"
    => TailsTrimmed(pre, call.e, heap, result.e)

\* C24, amended: strip_html changes no tail: every element of the tree it
\* returns has the tail of the element it was made from
C24_TailsKept ==
    call.op = "strip"
    => TailsKept(pre, call.e, heap, result.e)

\* strip_html was called on a block-level root whose first child is a
\* block-level element with a blank tail, next to a block-level last child
\* whose tail ends with a blank, and both tails are in the tree returned
C24_Witness ==
    /\ call.op = "strip"
    /\ call.e = root
    /\ ~Exempt(pre[root].tag)
    /\ Len(pre[root].children) = 2
    /\ ~Exempt(pre[pre[root].children[1]].tag)
    /\ ~Exempt(pre[pre[root].children[2]].tag)
    /\ pre[pre[root].children[1]].tail = <<SP>>
    /\ pre[pre[root].children[2]].tail = PAD_A
    /\ heap[heap[result.e].children[1]].tail = <<SP>>
    /\ heap[heap[result.e].children[2]].tail = PAD_A
    /\ C24_TailsKept

(***************************************************************************)
(* Claims about the nesting parse_html builds                              *)
(***************************************************************************)
\* the start tag and the end tag of an element that is not a void element
NonVoidStart(lex) == lex.kind = "start" /\ Lower(lex.tag) \notin TAGS_EMPTY
NonVoidEnd(lex) == lex.kind = "end" /\ Lower(lex.tag) \notin TAGS_EMPTY

RECURSIVE NestedPrefix(_, _, _)
\* the lexemes from the i-th on start a well-nested string, `open` being
\* the names of the elements open before the i-th: an end tag closes the
\* element open innermost, which has its name; a void element has no end
\* tag, or one right after its start tag; no tag is inside a script or a
\* style
NestedPrefix(lexs, i, open) ==
    IF i > Len(lexs) THEN TRUE
    ELSE CASE lexs[i].kind = "start" ->
                  /\ ~InCdata(open)
                  /\ NestedPrefix(lexs, i + 1,
                                  IF Lower(lexs[i].tag) \in TAGS_EMPTY THEN open
                                  ELSE Append(open, Lower(lexs[i].tag)))
           [] lexs[i].kind = "startend" ->
                  /\ ~InCdata(open)
                  /\ NestedPrefix(lexs, i + 1, open)
           [] lexs[i].kind = "end" ->
                  IF Lower(lexs[i].tag) \in TAGS_EMPTY
                  THEN /\ i > 1
                       /\ lexs[i - 1].kind = "start"
                       /\ Lower(lexs[i - 1].tag) = Lower(lexs[i].tag)
                       /\ NestedPrefix(lexs, i + 1, open)
                  ELSE /\ open # <<>>
                       /\ open[Len(open)] = Lower(lexs[i].tag)
                       /\ NestedPrefix(lexs, i + 1, SubSeq(open, 1, Len(open) - 1))
           [] OTHER -> NestedPrefix(lexs, i + 1, open)

\* the start tags of non-void elements less their end tags, among the
\* lexemes after the j-th up to the m-th
Depth(j, m) ==
    Cardinality({k \in (j + 1)..m : NonVoidStart(input[k])})
    - Cardinality({k \in (j + 1)..m : NonVoidEnd(input[k])})

\* the element the j-th lexeme starts is open before the k-th lexeme
OpenAt(j, k) ==
    /\ j < k
    /\ NonVoidStart(input[j])
    /\ \A m \in (j + 1)..(k - 1) : Depth(j, m) >= 0

\* the element that encloses the k-th lexeme: the one started last among
\* those open before it, or the synthetic root
Enclosing(k) ==
    IF \E j \in 1..Len(input) : OpenAt(j, k)
    THEN ElementOf(CHOOSE j \in 1..Len(input) :
                       OpenAt(j, k) /\ \A l \in 1..Len(input) : OpenAt(l, k) => l <= j)
    ELSE 1

\* the elements the builder has open, outermost first
OpenElements == Tail(_builder.stack) \o <<_builder.this>>

\* C25: for a well-nested string, the parent of the element of every start
\* tag is the element that encloses the tag in the string, the synthetic
\* root for a tag that nothing encloses, and the children of an element are
\* in the order of their start tags; and while the string is read the
\* elements the builder has open are the synthetic root, the non-void
\* elements open in the string, outermost first, and on top of them a void
\* element exactly when _empty_tag is set
C25_NestingKept ==
    (pstate \in {"feeding", "closed"} /\ NestedPrefix(input, 1, <<>>))
    => /\ \A i \in 1..Len(input) :
              input[i].kind \in {"start", "startend"}
              => /\ ElementOf(i) <= Len(_builder.elems)
                 /\ _builder.elems[ElementOf(i)].tag = Lower(input[i].tag)
                 /\ Parent(ElementOf(i)) = Enclosing(i)
       /\ \A e \in 1..Len(_builder.elems) :
              \A a, b \in 1..Len(_builder.elems[e].children) :
                  a < b => _builder.elems[e].children[a] < _builder.elems[e].children[b]
       /\ pstate = "feeding"
          => /\ _builder.stack # <<>>
             /\ Range(OpenElements)
                = {1} \cup {ElementOf(j) : j \in {l \in 1..Len(input) :
                                                     OpenAt(l, Len(input) + 1)}}
                  \cup (IF _empty_tag # None THEN {Len(_builder.elems)} ELSE {})
             /\ \A a, b \in 1..Len(OpenElements) :
                    a < b => OpenElements[a] < OpenElements[b]
             /\ _empty_tag # None
                <=> Lower(_builder.elems[_builder.this].tag) \in TAGS_EMPTY
             /\ _empty_tag # None
                => _empty_tag = <<_builder.elems[_builder.this].tag>>

\* <p><p><br></p> was read: the second p is a child of the first, br is a
\* child of the second p, and the first p is the element open innermost
C25_Witness ==
    /\ pstate = "feeding"
    /\ input = <<StartTag("p", <<>>), StartTag("p", <<>>), StartTag("br", <<>>),
                 EndTag("p")>>
    /\ _builder.elems[2].children = <<3>>
    /\ _builder.elems[3].children = <<4>>
    /\ OpenElements = <<1, 2>>
    /\ _empty_tag = None
    /\ C25_NestingKept

(***************************************************************************)
(* Claims about rico.html, the earlier module                              *)
(***************************************************************************)
\* C26: indent_html of rico.html creates a new document and updates nothing
\* in place: after the call every element of the tree it was given,
\* children without children and pre children included, has the text and
\* the tail it had before the call
C26_EarlierIndentNotInPlace ==
    call.op = "html_indent"
    => \A i \in 1..Len(pre) :
           /\ heap[i].text = pre[i].text
           /\ heap[i].tail = pre[i].tail

(***************************************************************************)
(* Claims about Obj                                                        *)
(***************************************************************************)
\* what a _repr_ method gives: the first item of a tuple, or what it returns
Given(value) == IF value.type = "tuple" THEN value.items[1][2] ELSE value

\* the object has the method, which is callable and gives something other
\* than None and the empty dict
Yields(obj, name) ==
    /\ obj.reprs[name].has
    /\ obj.reprs[name].callable
    /\ Given(obj.reprs[name].returns) \notin {PyNone, PyDict(<<>>)}

\* the methods in the order of the claim, with the MIME type of each
MethodOrder ==
    << <<"_repr_mimebundle_", "text/plain">> >> \o ReprMethods

\* the MIME types in the order of the claim, with the content of each
MimeOrder ==
    << <<"application/javascript", "Script", "">>, <<"text/html", "HTML", "">>,
       <<"text/markdown", "Markdown", "">>, <<"image/svg+xml", "Image", "svg+xml">>,
       <<"image/png", "Image", "png">>, <<"image/jpeg", "Image", "jpeg">>,
       <<"image/gif", "Image", "gif">>, <<"text/plain", "Text", "">> >>

\* the first method of the order that yields
FirstMethod(obj) ==
    CHOOSE i \in 1..Len(MethodOrder) :
        /\ Yields(obj, MethodOrder[i][1])
        /\ \A j \in 1..(i - 1) : ~Yields(obj, MethodOrder[j][1])

\* the entries of what the first method that yields gives: those of a dict,
\* or the one entry of the method's MIME type
EntriesOf(obj) ==
    IF \A i \in 1..Len(MethodOrder) : ~Yields(obj, MethodOrder[i][1]) THEN <<>>
    ELSE IF Given(obj.reprs[MethodOrder[FirstMethod(obj)][1]].returns).type = "dict"
         THEN Given(obj.reprs[MethodOrder[FirstMethod(obj)][1]].returns).items
         ELSE << <<MethodOrder[FirstMethod(obj)][2],
                   Given(obj.reprs[MethodOrder[FirstMethod(obj)][1]].returns)>> >>

\* the entry of the MIME type is there and is not empty
Entry(entries, mime) ==
    \E i \in 1..Len(entries) : entries[i][1] = mime /\ entries[i][2].v # <<>>

\* the characters of the entry of the MIME type
EntryChars(entries, mime) ==
    entries[CHOOSE i \in 1..Len(entries) : entries[i][1] = mime][2].v

\* C27: for an object that is neither rico content nor a plot, Obj takes the
\* data of the first of _repr_mimebundle_, _repr_javascript_, _repr_html_,
\* _repr_markdown_, _repr_svg_, _repr_png_, _repr_jpeg_ that the object has,
\* that is callable and that gives something other than None and the empty
\* dict, a tuple giving its first item; it renders the first entry of that
\* data that is not empty, in the order javascript, html, markdown, svg,
\* png, jpeg, gif, plain text, and Text(str(obj)) when there is none
C27_ObjRepresentation ==
    (call.op = "Obj" /\ call.obj.kind = "object")
    => IF \E k \in 1..Len(MimeOrder) : Entry(EntriesOf(call.obj), MimeOrder[k][1])
       THEN \E k \in 1..Len(MimeOrder) :
                /\ Entry(EntriesOf(call.obj), MimeOrder[k][1])
                /\ \A j \in 1..(k - 1) : ~Entry(EntriesOf(call.obj), MimeOrder[j][1])
                /\ result.content = MimeOrder[k][2]
                /\ result.format = MimeOrder[k][3]
                /\ result.data.v = EntryChars(EntriesOf(call.obj), MimeOrder[k][1])
       ELSE result = Content("Text", str(call.obj), "")

\* Obj was called on an object whose _repr_javascript_ returns a str and
\* whose _repr_mimebundle_ returns a dict of a plain text and a markdown
\* text: the markdown text is rendered
C27_Witness ==
    /\ call.op = "Obj"
    /\ call.obj.kind = "object"
    /\ call.obj.reprs["_repr_javascript_"]
       = [has |-> TRUE, callable |-> TRUE, returns |-> PyStr(X)]
    /\ call.obj.reprs["_repr_mimebundle_"].returns
       = PyDict(<< <<"text/plain", PyStr(X)>>, <<"text/markdown", PyStr(X)>> >>)
    /\ call.obj.reprs["_repr_mimebundle_"].callable
    /\ result = Content("Markdown", PyStr(X), "")
    /\ C27_ObjRepresentation

(***************************************************************************)
(* Claims about the character data outside the top-level elements          *)
(***************************************************************************)
\* the lexeme is a start tag
IsStart(lex) == lex.kind \in {"start", "startend"}

\* the index of the first start tag of the string, or one more than its
\* length
FirstStart ==
    IF \E i \in 1..Len(input) : IsStart(input[i])
    THEN CHOOSE i \in 1..Len(input) :
             IsStart(input[i]) /\ \A j \in 1..(i - 1) : ~IsStart(input[j])
    ELSE Len(input) + 1

RECURSIVE DataOf(_, _)
\* the character data of the first n lexemes of lexs, references replaced
DataOf(lexs, n) ==
    IF n = 0 THEN <<>>
    ELSE DataOf(lexs, n - 1)
         \o (IF lexs[n].kind = "data" THEN unescape(lexs[n].text) ELSE <<>>)

\* the top-level element whose start tag is the last before the i-th lexeme
LastTop(i) ==
    ElementOf(CHOOSE j \in 1..(i - 1) :
                  /\ IsStart(input[j]) /\ Enclosing(j) = 1
                  /\ \A l \in (j + 1)..(i - 1) :
                         ~(IsStart(input[l]) /\ Enclosing(l) = 1))

\* the i-th lexeme is character data that comes right after a top-level
\* element of a well-nested string
AfterTopLevel(i) ==
    /\ NestedPrefix(input, 1, <<>>)
    /\ input[i].kind = "data"
    /\ i > FirstStart
    /\ input[i - 1].kind # "data"
    /\ Enclosing(i) = 1

\* C28: the character data before the first start tag is the text of the
\* synthetic root and is not in the forest parse_html returns, whose first
\* element is the element of the first start tag; the forest of the empty
\* string and of a string of character data only is empty; and character
\* data after a top-level element is in the tail of that element
C28_DataOutsideElements ==
    pstate = "closed"
    => /\ _builder.elems[1].text
          = (IF DataOf(input, FirstStart - 1) = <<>> THEN None
             ELSE DataOf(input, FirstStart - 1))
       /\ FirstStart > Len(input) => Forest = <<>>
       /\ FirstStart <= Len(input)
          => /\ Forest # <<>>
             /\ Forest[1] = 2
             /\ _builder.elems[2].tag = Lower(input[FirstStart].tag)
             /\ (/\ FirstStart > 1
                 /\ Lower(input[FirstStart].tag) \notin CDATA_CONTENT_ELEMENTS
                 /\ FirstStart < Len(input) => input[FirstStart + 1].kind # "data")
                => _builder.elems[2].text = None
       /\ \A i \in 1..Len(input) :
              AfterTopLevel(i)
              => StartsWith(_builder.elems[LastTop(i)].tail, unescape(input[i].text))

\* a<p></p>a was parsed: the forest is p alone, which has no text and the
\* tail a, and the first a is the text of the synthetic root
C28_Witness ==
    /\ pstate = "closed"
    /\ input = <<Data(<<"a">>), StartTag("p", <<>>), EndTag("p"), Data(<<"a">>)>>
    /\ Forest = <<2>>
    /\ _builder.elems[1].text = <<"a">>
    /\ _builder.elems[2].text = None
    /\ _builder.elems[2].tail = <<"a">>
    /\ C28_DataOutsideElements

(***************************************************************************)
(* Claims about what indent_html keeps                                     *)
(***************************************************************************)
\* the characters of a text or a tail, none for None
CharsOf(v) == IF v = None THEN <<>> ELSE v

RECURSIVE ShapeKept(_, _, _, _)
\* e2 has the tag and the attributes of e1 and as many children; its text
\* and its tail have the characters other than whitespace of the text and
\* the tail of e1, in their order; and so for every child, in order
ShapeKept(h1, e1, h2, e2) ==
    /\ h2[e2].tag = h1[e1].tag
    /\ h2[e2].attrib = h1[e1].attrib
    /\ NonBlank(CharsOf(h2[e2].text)) = NonBlank(CharsOf(h1[e1].text))
    /\ NonBlank(CharsOf(h2[e2].tail)) = NonBlank(CharsOf(h1[e1].tail))
    /\ Len(h2[e2].children) = Len(h1[e1].children)
    /\ \A i \in 1..Len(h1[e1].children) :
           ShapeKept(h1, h1[e1].children[i], h2, h2[e2].children[i])

\* C29: the tree indent_html returns has the shape of the tree it was
\* given: the same tag and attributes at every element and the same number
\* of children in the same order; every text and every tail has the same
\* characters other than whitespace, in the same order, as in the tree
\* given; and the tail of the root is the tail it was
C29_ShapeKept ==
    call.op = "indent"
    => /\ ShapeKept(pre, call.e, heap, result.e)
       /\ heap[result.e].tail = pre[call.e].tail

\* indent_html was called on a block-level root with a blank tail and two
\* children: it has set the root's text and the first child's blank tail,
\* and has kept the last child's tail, which holds text
C29_Witness ==
    /\ call.op = "indent"
    /\ call.e = root
    /\ ~Exempt(pre[root].tag)
    /\ Len(pre[root].children) = 2
    /\ pre[root].text = None
    /\ heap[result.e].text = <<NL>> \o call.space
    /\ pre[pre[root].children[1]].tail = <<SP>>
    /\ heap[heap[result.e].children[1]].tail = <<NL>> \o call.space
    /\ pre[pre[root].children[2]].tail = PAD_A
    /\ heap[heap[result.e].children[2]].tail = PAD_A
    /\ C29_ShapeKept

(***************************************************************************)
(* Claims about what set_config changes                                    *)
(***************************************************************************)
\* C30: after set_config every option passed with a value other than None
\* has that value and every other option has the value it had; and no call
\* of set_config, and no entry into or exit from a config_context block,
\* leaves None in an option that held a value
C30_SetConfigFrame ==
    /\ call.op = "set_config"
       => \A o \in DOMAIN _global_config :
              _global_config[o]
              = (IF call.arg[o] # None THEN call.arg[o] ELSE call.before[o])
    /\ call.op \in {"set_config", "enter", "exit", "exit_raised"}
       => \A o \in DOMAIN _global_config :
              call.before[o] # None => _global_config[o] # None

\* set_config(indent_html=True) was called when indent_html was False and
\* markdown_renderer was a callable of the caller: indent_html alone changed
C30_Witness ==
    /\ call.op = "set_config"
    /\ call.arg = [NoOptions EXCEPT !.indent_html = True]
    /\ call.before.indent_html = False
    /\ call.before.markdown_renderer = Custom
    /\ _global_config = [call.before EXCEPT !.indent_html = True]
    /\ C30_SetConfigFrame

====
